---- MODULE Spec2Model ----
(***************************************************************************)
(* st7735-async-low: the command encoder (Commands, RamWriter), the byte   *)
(* to batch adapter (AdapterU8, RepeatU8), the STM32 SPI transport of the  *)
(* example (Spi, ByteWriting) and the busy-polling driver (TrivialWaker),  *)
(* as one state machine.  One asynchronous operation is outstanding at a   *)
(* time; the SPI peripheral shifts a byte out concurrently with the CPU.   *)
(***************************************************************************)
EXTENDS Integers, Sequences, FiniteSets, TLC

\* ------------------------------------------------------------------ bounds
\* Number of operations (futures) the caller creates in one behaviour.
MaxOps == 2

\* Number of writes made through one RamWriter in SpecSession.
MaxWrites == 5

\* Length of the sequences of 16-bit values written in SpecWide.
MaxWords == 2

\* Number of read cycles of a bit-banged read in SpecBitBang.
MaxCycles == 3

\* Number of bits of a read in SpecReadBits.
MaxReadBits == 34

\* Number of calls made on an adapter in SpecAdapters.
MaxAdapterOps == 3

\* Number of times a future handed to block_on returns Pending.
MaxPendings == 2

\* Number of wake-ups from outside the poll between two tests of the flag.
MaxWakes == 2

\* Number of calls made on ByteWriting handles held by the caller.
MaxCalls == 5

\* Number of read_bits calls made in one read session.
MaxReads == 2

\* Number of setter calls made on one Madctl.
MaxSets == 8

\* ------------------------------------------------------- program constants
NOP     == 0
SWRESET == 1
SLPIN   == 16
SLPOUT  == 17
PTLON   == 18
NORON   == 19
INVOFF  == 32
INVON   == 33
DISPOFF == 40
DISPON  == 41
CASET   == 42
RASET   == 43
RAMWR   == 44
RGBSET  == 45
PTLAR   == 48
SCRLAR  == 51
TEOFF   == 52
TEON    == 53
MADCTL  == 54
IDMOFF  == 56
IDMON   == 57
COLMOD  == 58
RDDID   == 4
RDID1   == 218
RDID2   == 219
RDID3   == 220

VARIABLES
    user,     \* who owns the transport: "commands" (Commands<AdapterU8<Spi>>)
              \* or "adapter" (a bare AdapterU8<Spi>, as in the adapter tests)
    spi,      \* the transport: DCX pin, SPI1 busy flag and data register,
              \* read mode, and the history flags the properties read
    wire,     \* what the display has received: framed bytes, oldest first
    writer,   \* the live RamWriter: "none", "ramwr" or "rgbset"
    task,     \* the outstanding future (async fn state or RepeatU8)
    bw,       \* the live ByteWriting handle
    run,      \* "idle", "suspended", "polling" or "dropping"
    waked,    \* TrivialWaker.waked
    ops       \* log of the operations the caller issued

vars == <<user, spi, wire, writer, task, bw, run, waked, ops>>

\* ------------------------------------------------------------ value shapes
NoByte   == [byte |-> 0, role |-> "none", dcx0 |-> "command"]
\* A ByteWriting: its status, and for the properties the number of the byte
\* it started (1 for the first byte handed to the SPI) and whether a poll of
\* it has returned Pending.
NoHandle == [status |-> "None", id |-> 0, pended |-> FALSE]

Started(id) == [status |-> "Started", id |-> id, pended |-> FALSE]
\* A u32 as its two 16-bit halves.
U32(hi, lo) == [hi |-> hi, lo |-> lo]

\* The value of an async fn that returns (): results are tuples of numbers.
Unit == <<>>

NoTask   == [kind |-> "none", pc |-> "none", cmd |-> 0, bytes |-> <<>>,
             words |-> <<>>, cur |-> 0, nbits |-> 0, got |-> 0,
             acc |-> U32(0, 0), bit |-> 0, reply |-> <<>>, role |-> "none",
             polls |-> "none", wakes |-> 0]

\* The future is gone; what stays is how often block_on polled it (polls:
\* none, one, many).  `wakes` counts the calls of vt_wake from outside the
\* poll since the flag was last cleared.
Finished(t) == [NoTask EXCEPT !.polls = t.polls]

\* An operation the caller can issue: the async fn (or adapter method) that
\* runs, its name in the command surface, the caller's arguments (numbers in
\* args, a bool in flag, an enum value in sym), the opcode, the bytes and
\* 16-bit words the method passes on, and for a read the number of bits and
\* the value the display answers with.
Op(kind, name, args, flag, sym, cmd, bytes, words, nbits, reply) ==
    [kind |-> kind, name |-> name, args |-> args, flag |-> flag, sym |-> sym,
     cmd |-> cmd, bytes |-> bytes, words |-> words, nbits |-> nbits,
     reply |-> reply]

\* ---------------------------------------------------------------- DcxPin
\* set_dcx_command_mode / set_dcx_data_mode drive the pin; `glitch` records
\* a level change made while the peripheral is shifting a byte out.
SetDcx(s, level) ==
    [s EXCEPT !.dcx = level,
              !.glitch = @ \/ (s.bsy /\ s.dcx # level)]

set_dcx_command_mode(s) == SetDcx(s, "command")

set_dcx_data_mode(s) == SetDcx(s, "data")

\* ------------------------------------------------------------ Spi, SPI1
\* send_spi1_byte: the byte is written to the data register and the
\* peripheral starts shifting it out.  `overrun` records a write made while
\* the previous byte is still in the shift register (that byte is lost).
send_spi1_byte(s, b, role) ==
    [s EXCEPT !.bsy = TRUE,
              !.dr = [byte |-> b, role |-> role, dcx0 |-> s.dcx],
              !.nSent = @ + 1,
              !.overrun = @ \/ s.bsy]

\* Spi::write_byte: starts the byte, returns a ByteWriting in status Started.
write_byte(s, b, role) == send_spi1_byte(s, b, role)

\* ByteWriting::is_done: Started consults SR.BSY; Done stays done.
is_done_AlwaysTrue(h, bsy) == TRUE

is_done_AsksAgain(h, bsy) == ~bsy

is_done(h, bsy) ==
    CASE h.status = "Started" -> ~bsy
      [] h.status = "Done"    -> TRUE
      [] OTHER                -> TRUE

\* Drop for ByteWriting: `while !self.is_done() {}` returns once is_done().
DropReturns_NoWait(h, bsy) == TRUE

DropReturns(h, bsy) == is_done(h, bsy)

\* Commands::new puts the pin in command mode, whatever its level was.
CommandsNew(pin) == "command"

\* ------------------------------------------------- async fn bodies (pure)
\* Each body maps (task, spi) at an await point whose handle has completed
\* (or at "start") to the state at the next await point or at the return.
\* `self.spi.write_u8(b).await`: start the byte, wait at `pc`.
Await(t, s, pc, b) ==
    [task |-> [t EXCEPT !.pc = pc], spi |-> write_byte(s, b, t.role),
     fin |-> FALSE, ret |-> Unit]

Return(t, s, v) == [task |-> t, spi |-> s, fin |-> TRUE, ret |-> v]

\* Commands::command: the opcode byte, in whatever mode the pin is in.
command(t, s) ==
    IF t.pc = "start"
    THEN [task |-> [t EXCEPT !.pc = "cmd"],
          spi |-> write_byte(s, t.cmd, "opcode"), fin |-> FALSE, ret |-> Unit]
    ELSE Return(t, s, Unit)

\* Commands::command_with_u8
command_with_u8_NoDataMode(t, s) ==
    CASE t.pc = "start" -> command(t, s)
      [] t.pc = "cmd"   -> Await(t, s, "data", t.bytes[1])
      [] OTHER          -> Return(t, set_dcx_command_mode(s), Unit)

command_with_u8_EarlyData(t, s) ==
    CASE t.pc = "start" -> [command(t, s) EXCEPT !.spi = set_dcx_data_mode(@)]
      [] t.pc = "cmd"   -> Await(t, s, "data", t.bytes[1])
      [] OTHER          -> Return(t, set_dcx_command_mode(s), Unit)

command_with_u8(t, s) ==
    CASE t.pc = "start" -> command(t, s)
      [] t.pc = "cmd"   -> Await(t, set_dcx_data_mode(s), "data", t.bytes[1])
      [] OTHER          -> Return(t, set_dcx_command_mode(s), Unit)

\* `(element >> 8) as u8` and `(element & 0xFF) as u8`
HiByte_NoShift(v) == v % 256

HiByte(v) == (v \div 256) % 256

LoByte(v) == v % 256

\* AdapterU8::write_u8_iter: `for element in iter { write_u8(element).await }`
write_u8_iter(t, s) ==
    IF t.bytes = <<>>
    THEN Return(t, s, Unit)
    ELSE Await([t EXCEPT !.bytes = Tail(t.bytes)], s, "elem", Head(t.bytes))

\* WriteU8s for MockDevice, the batch write under an AdapterU8s:
\* `for one in data { self.write_u8(*one).await; }`
MockDevice_write_u8s(t, s) ==
    IF t.bytes = <<>>
    THEN Return(t, s, Unit)
    ELSE Await([t EXCEPT !.bytes = Tail(t.bytes)], s, "elem", Head(t.bytes))

\* WriteU8 for AdapterU8s: `self.buf = data` (buf is 0 after new), then the
\* slice the underlying write_u8s is called with, from_ref(&self.buf).
AdapterU8s_write_u8_StaleBuf(data) == <<0>>

AdapterU8s_write_u8(data) == <<data>>

\* WriteU8s for AdapterU8s: the slice is passed on as it is.
AdapterU8s_write_u8s(data) == data

\* AdapterU8::write_u16_iter: per element the high byte, then the low byte.
write_u16_iter(t, s) ==
    IF t.pc = "hi"
    THEN Await(t, s, "lo", LoByte(t.cur))
    ELSE IF t.words = <<>>
         THEN Return(t, s, Unit)
         ELSE Await([t EXCEPT !.words = Tail(t.words), !.cur = Head(t.words)],
                    s, "hi", HiByte(Head(t.words)))

\* Commands::command_with_u16_pair
command_with_u16_pair_NoRestore(t, s) ==
    IF t.pc = "start"
    THEN command(t, s)
    ELSE write_u16_iter(t, IF t.pc = "cmd" THEN set_dcx_data_mode(s) ELSE s)

command_with_u16_pair(t, s) ==
    IF t.pc = "start"
    THEN command(t, s)
    ELSE LET r == write_u16_iter(
                      t, IF t.pc = "cmd" THEN set_dcx_data_mode(s) ELSE s)
         IN  IF r.fin
             THEN Return(r.task, set_dcx_command_mode(r.spi), Unit)
             ELSE r

\* Commands::command_with_u16_slice
command_with_u16_slice(t, s) ==
    IF t.pc = "start"
    THEN command(t, s)
    ELSE LET r == write_u16_iter(
                      t, IF t.pc = "cmd" THEN set_dcx_data_mode(s) ELSE s)
         IN  IF r.fin
             THEN Return(r.task, set_dcx_command_mode(r.spi), Unit)
             ELSE r

\* Commands::ramwr and Commands::rgbset: the opcode, then data mode; the
\* RamWriter they return restores command mode when dropped.
ramwr_NoDataMode(t, s) ==
    IF t.pc = "start" THEN command(t, s)
    ELSE Return(t, s, Unit)

ramwr(t, s) ==
    IF t.pc = "start" THEN command(t, s)
    ELSE Return(t, set_dcx_data_mode(s), Unit)

rgbset(t, s) ==
    IF t.pc = "start" THEN command(t, s)
    ELSE Return(t, set_dcx_data_mode(s), Unit)

\* Drop for RamWriter
RamWriterDrop_Nothing(s) == s

RamWriterDrop(s) == set_dcx_command_mode(s)

\* WriteU8 for RamWriter / AdapterU8 / Spi: one byte.
write_u8(t, s) ==
    IF t.pc = "start" THEN Await(t, s, "byte", t.bytes[1])
    ELSE Return(t, s, Unit)

\* Future for RepeatU8 (AdapterU8::write_u8s), one turn of its loop: `data`
\* is t.bytes and `current_write` the handle h.  With no current write the
\* first remaining byte is started, or with none remaining the batch is
\* Ready; a current write is polled, Pending is passed on, and once it is
\* Ready it is dropped (status "None") for the next turn.
RepeatU8_poll_EmptyPends(t, s, h) ==
    CASE h.status = "Started" /\ ~is_done(h, s.bsy) ->
            [task |-> t, spi |-> s, bw |-> [h EXCEPT !.pended = TRUE],
             fin |-> FALSE, pending |-> TRUE]
      [] h.status = "Started" /\ is_done(h, s.bsy) ->
            [task |-> t, spi |-> s, bw |-> [h EXCEPT !.status = "Done"],
             fin |-> FALSE, pending |-> FALSE]
      [] t.bytes = <<>> /\ t.pc = "start" ->
            [task |-> [t EXCEPT !.pc = "checked"], spi |-> s, bw |-> NoHandle,
             fin |-> FALSE, pending |-> TRUE]
      [] OTHER ->
            IF t.bytes = <<>>
            THEN [task |-> t, spi |-> s, bw |-> NoHandle, fin |-> TRUE,
                  pending |-> FALSE]
            ELSE [task |-> [t EXCEPT !.bytes = Tail(t.bytes),
                                     !.pc = "current_write"],
                  spi |-> write_byte(s, Head(t.bytes), t.role),
                  bw |-> Started(s.nSent + 1), fin |-> FALSE,
                  pending |-> FALSE]

RepeatU8_poll_NoWait(t, s, h) ==
    IF t.bytes = <<>>
    THEN [task |-> t, spi |-> s, bw |-> NoHandle, fin |-> TRUE,
          pending |-> FALSE]
    ELSE [task |-> [t EXCEPT !.bytes = Tail(t.bytes), !.pc = "current_write"],
          spi |-> write_byte(s, Head(t.bytes), t.role),
          bw |-> Started(s.nSent + 1), fin |-> FALSE, pending |-> FALSE]

\* A poll that forgets the current write when it returns Pending.
RepeatU8_poll_DropsOnPending(t, s, h) ==
    CASE h.status = "Started" /\ ~is_done(h, s.bsy) ->
            [task |-> t, spi |-> s, bw |-> NoHandle,
             fin |-> FALSE, pending |-> TRUE]
      [] h.status = "Started" /\ is_done(h, s.bsy) ->
            [task |-> t, spi |-> s, bw |-> [h EXCEPT !.status = "Done"],
             fin |-> FALSE, pending |-> FALSE]
      [] OTHER ->
            IF t.bytes = <<>>
            THEN [task |-> t, spi |-> s, bw |-> NoHandle, fin |-> TRUE,
                  pending |-> FALSE]
            ELSE [task |-> [t EXCEPT !.bytes = Tail(t.bytes),
                                     !.pc = "current_write"],
                  spi |-> write_byte(s, Head(t.bytes), t.role),
                  bw |-> Started(s.nSent + 1), fin |-> FALSE,
                  pending |-> FALSE]

RepeatU8_poll(t, s, h) ==
    CASE h.status = "Started" /\ ~is_done(h, s.bsy) ->
            [task |-> t, spi |-> s, bw |-> [h EXCEPT !.pended = TRUE],
             fin |-> FALSE, pending |-> TRUE]
      [] h.status = "Started" /\ is_done(h, s.bsy) ->
            [task |-> t, spi |-> s, bw |-> [h EXCEPT !.status = "Done"],
             fin |-> FALSE, pending |-> FALSE]
      [] OTHER ->
            IF t.bytes = <<>>
            THEN [task |-> t, spi |-> s, bw |-> NoHandle, fin |-> TRUE,
                  pending |-> FALSE]
            ELSE [task |-> [t EXCEPT !.bytes = Tail(t.bytes),
                                     !.pc = "current_write"],
                  spi |-> write_byte(s, Head(t.bytes), t.role),
                  bw |-> Started(s.nSent + 1), fin |-> FALSE,
                  pending |-> FALSE]

\* A call of enable_spi1, disable_spi1, set_pins_spi1 or set_pins_bitbang:
\* one register write each (SPE of SPI1.cr1; MODER5/MODER7 of GPIOA), kept
\* in call order together with the BSY flag at the moment of the write.
Reg(s, f) == [s EXCEPT !.regs = Append(@, [f |-> f, bsy |-> s.bsy])]

\* start_reading / finish_reading switch the transport between write and
\* read mode; the counters keep how often each ran.  On the example's Spi,
\* start_reading is `disable_spi1(); set_pins_bitbang();` and the release of
\* the reader is `set_pins_spi1(); enable_spi1();`.
start_reading_PinsFirst(s) ==
    Reg(Reg([s EXCEPT !.reading = TRUE, !.nStart = @ + 1],
            "set_pins_bitbang"), "disable_spi1")

start_reading(s) ==
    Reg(Reg([s EXCEPT !.reading = TRUE, !.nStart = @ + 1],
            "disable_spi1"), "set_pins_bitbang")

finish_reading(s) ==
    Reg(Reg([s EXCEPT !.reading = FALSE, !.nFinish = @ + 1],
            "set_pins_spi1"), "enable_spi1")

\* Commands::read_command: opcode, start_reading, read(num_bits).await,
\* finish_reading.  At pc "read" the transport's read future is awaited.
read_command_NoFinish(t, s) ==
    CASE t.pc = "start" -> command(t, s)
      [] t.pc = "cmd"   ->
            [task |-> [t EXCEPT !.pc = "read", !.got = 0, !.acc = U32(0, 0)],
             spi |-> start_reading(s), fin |-> FALSE, ret |-> Unit]
      [] OTHER          -> Return(t, s, t.acc)

read_command(t, s) ==
    CASE t.pc = "start" -> command(t, s)
      [] t.pc = "cmd"   ->
            [task |-> [t EXCEPT !.pc = "read", !.got = 0, !.acc = U32(0, 0)],
             spi |-> start_reading(s), fin |-> FALSE, ret |-> Unit]
      [] OTHER          -> Return(t, finish_reading(s), t.acc)

\* `r as u8` on a u32: the low eight bits.
AsU8(r) == r.lo % 256

\* `r >> 16` and `r >> 8` on a u32.
Shr16_By17(r) == U32(0, r.hi \div 2)

Shr16(r) == U32(0, r.hi)

Shr8(r) == U32(r.hi \div 256, (r.hi % 256) * 256 + r.lo \div 256)

\* `r & 0xFF` on a u32.
And0xFF(r) == U32(0, r.lo % 256)

\* Commands::rdid1 / rdid2 / rdid3: `read_command(cmd, 8).await as u8`.
rdid(t, s) ==
    LET r == read_command(t, s)
    IN  [task |-> r.task, spi |-> r.spi, fin |-> r.fin,
         ret |-> IF r.fin THEN <<AsU8(r.ret)>> ELSE Unit]

\* Commands::rddid:
\* `[(r >> 16) as u8, (r >> 8 & 0xFF) as u8, (r & 0xFF) as u8]`.
rddid_NoCast(t, s) ==
    LET r == read_command(t, s)
    IN  [task |-> r.task, spi |-> r.spi, fin |-> r.fin,
         ret |-> IF r.fin
                 THEN <<Shr16(r.ret).lo, AsU8(And0xFF(Shr8(r.ret))),
                        AsU8(And0xFF(r.ret))>>
                 ELSE Unit]

rddid(t, s) ==
    LET r == read_command(t, s)
    IN  [task |-> r.task, spi |-> r.spi, fin |-> r.fin,
         ret |-> IF r.fin
                 THEN <<AsU8(Shr16(r.ret)), AsU8(And0xFF(Shr8(r.ret))),
                        AsU8(And0xFF(r.ret))>>
                 ELSE Unit]

\* The bit the display drives on the data line in read cycle i (1-based).
LineBit(reply, i) == reply[i]

\* A shift that keeps the bit shifted out of the 32.
ShlOr_NoWrap(r, bit) ==
    U32(r.hi * 2 + r.lo \div 32768, (r.lo * 2 + bit) % 65536)

\* `r.wrapping_shl(1) | bit` on a u32
ShlOr(r, bit) ==
    U32((r.hi * 2 + r.lo \div 32768) % 65536, (r.lo * 2 + bit) % 65536)

\* One cycle of Read::read: sample the line, shift the bit in.
ReadCycle_LsbFirst(t) ==
    LET bit == LineBit(t.reply, t.got + 1)
    IN  [t EXCEPT !.got = @ + 1,
                  !.acc = IF t.got < 16
                          THEN U32(t.acc.hi, t.acc.lo + bit * 2 ^ t.got)
                          ELSE U32(t.acc.hi + bit * 2 ^ (t.got - 16),
                                   t.acc.lo)]

ReadCycle(t) ==
    [t EXCEPT !.got = @ + 1,
              !.acc = ShlOr(t.acc, LineBit(t.reply, t.got + 1))]

\* A u32 as a result: its two 16-bit halves, high half first.
U32Result(r) == <<r.hi, r.lo>>

\* The old ReadBits::read_bits of a reader (MockDeviceReader, and the loop of
\* the Read doc example): the loop runs in ReadCycle; when it is over the
\* value is returned and the reader, a temporary of the caller's statement,
\* is dropped, which switches back to write mode.
read_bits(t, s) == Return(t, finish_reading(s), U32Result(t.acc))

\* A read session whose accumulator is not restarted between two calls.
read_session_KeepsAcc(t, s) ==
    IF t.pc = "start"
    THEN IF t.bytes = <<>>
         THEN Return(t, finish_reading(start_reading(s)), Unit)
         ELSE [task |-> [t EXCEPT !.pc = "read", !.cur = 1,
                                  !.nbits = t.bytes[1]],
               spi |-> start_reading(s), fin |-> FALSE, ret |-> Unit]
    ELSE IF t.cur = Len(t.bytes)
         THEN Return(t, finish_reading(s), t.words \o U32Result(t.acc))
         ELSE [task |-> [t EXCEPT !.cur = @ + 1,
                                  !.nbits = t.bytes[t.cur + 1],
                                  !.got = 0,
                                  !.words = @ \o U32Result(t.acc),
                                  !.reply = SubSeq(@, t.nbits + 1, Len(@))],
               spi |-> s, fin |-> FALSE, ret |-> Unit]

\* `let mut r = d.start_reading(); r.read_bits(n1).await; ...` in one async
\* block: t.bytes are the bit counts of the calls, t.reply the bits still to
\* come on the line, t.words the values returned so far.  Each read_bits
\* starts with r = 0; the reader is dropped at the end of the block.
read_session(t, s) ==
    IF t.pc = "start"
    THEN IF t.bytes = <<>>
         THEN Return(t, finish_reading(start_reading(s)), Unit)
         ELSE [task |-> [t EXCEPT !.pc = "read", !.cur = 1,
                                  !.nbits = t.bytes[1]],
               spi |-> start_reading(s), fin |-> FALSE, ret |-> Unit]
    ELSE IF t.cur = Len(t.bytes)
         THEN Return(t, finish_reading(s), t.words \o U32Result(t.acc))
         ELSE [task |-> [t EXCEPT !.cur = @ + 1,
                                  !.nbits = t.bytes[t.cur + 1],
                                  !.got = 0, !.acc = U32(0, 0),
                                  !.words = @ \o U32Result(t.acc),
                                  !.reply = SubSeq(@, t.nbits + 1, Len(@))],
               spi |-> s, fin |-> FALSE, ret |-> Unit]

\* GPIO accesses of the bit-banged read: PA5 is the clock, PA7 the data line.
ClockLow  == [pin |-> "PA5", act |-> "reset"]

ClockHigh == [pin |-> "PA5", act |-> "set"]

SampleLine == [pin |-> "PA7", act |-> "read"]

delay == [pin |-> "none", act |-> "delay"]

Gpio(s, e) == [s EXCEPT !.gpio = Append(@, e)]

\* Future for BitsReaderResult (example transport): one statement of the loop
\* body per step; after the loop Ready(r), and the BitsReader temporary is
\* dropped (set_pins_spi1, enable_spi1).
BitsReaderResult_poll_SampleAfterHigh(t, s) ==
    CASE t.pc = "loop" ->
            IF t.got < t.nbits
            THEN [task |-> [t EXCEPT !.pc = "delay1"],
                  spi |-> Gpio(s, ClockLow), fin |-> FALSE, ret |-> Unit]
            ELSE Return(t, finish_reading(s), U32Result(t.acc))
      [] t.pc = "delay1" ->
            [task |-> [t EXCEPT !.pc = "set"],
             spi |-> Gpio(s, delay), fin |-> FALSE, ret |-> Unit]
      [] t.pc = "set" ->
            [task |-> [t EXCEPT !.pc = "sample"],
             spi |-> Gpio(s, ClockHigh), fin |-> FALSE, ret |-> Unit]
      [] t.pc = "sample" ->
            [task |-> [t EXCEPT !.pc = "delay2",
                                !.bit = LineBit(t.reply, t.got + 1)],
             spi |-> [Gpio(s, SampleLine) EXCEPT !.nRead = @ + 1],
             fin |-> FALSE, ret |-> Unit]
      [] t.pc = "delay2" ->
            [task |-> [t EXCEPT !.pc = "acc"],
             spi |-> Gpio(s, delay), fin |-> FALSE, ret |-> Unit]
      [] OTHER ->
            [task |-> [t EXCEPT !.pc = "loop", !.got = @ + 1,
                                !.acc = ShlOr(t.acc, t.bit)],
             spi |-> s, fin |-> FALSE, ret |-> Unit]

BitsReaderResult_poll(t, s) ==
    CASE t.pc = "loop" ->
            IF t.got < t.nbits
            THEN [task |-> [t EXCEPT !.pc = "delay1"],
                  spi |-> Gpio(s, ClockLow), fin |-> FALSE, ret |-> Unit]
            ELSE Return(t, finish_reading(s), U32Result(t.acc))
      [] t.pc = "delay1" ->
            [task |-> [t EXCEPT !.pc = "sample"],
             spi |-> Gpio(s, delay), fin |-> FALSE, ret |-> Unit]
      [] t.pc = "sample" ->
            [task |-> [t EXCEPT !.pc = "set",
                                !.bit = LineBit(t.reply, t.got + 1)],
             spi |-> [Gpio(s, SampleLine) EXCEPT !.nRead = @ + 1],
             fin |-> FALSE, ret |-> Unit]
      [] t.pc = "set" ->
            [task |-> [t EXCEPT !.pc = "delay2"],
             spi |-> Gpio(s, ClockHigh), fin |-> FALSE, ret |-> Unit]
      [] t.pc = "delay2" ->
            [task |-> [t EXCEPT !.pc = "acc"],
             spi |-> Gpio(s, delay), fin |-> FALSE, ret |-> Unit]
      [] OTHER ->
            [task |-> [t EXCEPT !.pc = "loop", !.got = @ + 1,
                                !.acc = ShlOr(t.acc, t.bit)],
             spi |-> s, fin |-> FALSE, ret |-> Unit]

\* ------------------------------------------------------- command surface
NoArgs(kind, name, cmd) ==
    Op(kind, name, <<>>, FALSE, "", cmd, <<>>, <<>>, 0, <<>>)

nop     == NoArgs("command", "nop", NOP)
swreset == NoArgs("command", "swreset", SWRESET)
slpin   == NoArgs("command", "slpin", SLPIN)
slpout  == NoArgs("command", "slpout", SLPOUT)
ptlon   == NoArgs("command", "ptlon", PTLON)
noron   == NoArgs("command", "noron", NORON)
invoff  == NoArgs("command", "invoff", INVOFF)
invon   == NoArgs("command", "invon", INVON)
dispoff == NoArgs("command", "dispoff", DISPOFF)
dispon  == NoArgs("command", "dispon", DISPON)
teoff   == NoArgs("command", "teoff", TEOFF)
idmoff  == NoArgs("command", "idmoff", IDMOFF)
idmon   == NoArgs("command", "idmon", IDMON)

caset(begin, end) ==
    Op("command_with_u16_pair", "caset", <<begin, end>>, FALSE, "",
       CASET, <<>>, <<begin, end>>, 0, <<>>)

raset(begin, end) ==
    Op("command_with_u16_pair", "raset", <<begin, end>>, FALSE, "",
       RASET, <<>>, <<begin, end>>, 0, <<>>)

ptlar(begin, end) ==
    Op("command_with_u16_pair", "ptlar", <<begin, end>>, FALSE, "",
       PTLAR, <<>>, <<begin, end>>, 0, <<>>)

scrlar(top, visible, bottom) ==
    Op("command_with_u16_slice", "scrlar", <<top, visible, bottom>>, FALSE, "",
       SCRLAR, <<>>, <<top, visible, bottom>>, 0, <<>>)

teon(te_mode) ==
    Op("command_with_u8", "teon", <<>>, te_mode, "",
       TEON, <<IF te_mode THEN 1 ELSE 0>>, <<>>, 0, <<>>)

\* define_pub_bit_type!: the zero variant and the one variant of each type.
BitTypes ==
    [RowOrder            |-> <<"TopToBottom", "BottomToTop">>,
     ColumnOrder         |-> <<"LeftToRight", "RightToLeft">>,
     RowColumnSwap       |-> <<"Unswapped", "Swapped">>,
     ColorComponentOrder |-> <<"RedGreenBlue", "BlueGreenRed">>]

\* to_bool with the two arms exchanged.
to_bool_ZeroIsTrue(type, v) == v = BitTypes[type][1]

\* to_bool: false for the zero variant, true for the one variant.
to_bool(type, v) == v = BitTypes[type][2]

\* from_bool: the zero variant for true, the one variant for false.
from_bool(type, b) == IF b THEN BitTypes[type][1] ELSE BitTypes[type][2]

\* `impl Default for $name`: the zero variant.
BitTypeDefault(type) == BitTypes[type][1]

\* `#[derive(Default)] struct Madctl { data: u8 }`
Madctl_default == [data |-> 0]

\* The bit_field! lines of Madctl, in the order of the source.
MadctlFields ==
    << [name |-> "row_address_order", type |-> "RowOrder", bit_offset |-> 7],
       [name |-> "column_address_order", type |-> "ColumnOrder",
        bit_offset |-> 6],
       [name |-> "row_column_swap", type |-> "RowColumnSwap",
        bit_offset |-> 5],
       [name |-> "vertical_refresh_order", type |-> "RowOrder",
        bit_offset |-> 4],
       [name |-> "horizontal_refresh_order", type |-> "ColumnOrder",
        bit_offset |-> 2],
       [name |-> "rgb_order", type |-> "ColorComponentOrder",
        bit_offset |-> 3] >>

\* (data >> i) & 1
BitAt(data, i) == (data \div 2^i) % 2

\* The getter of the k-th field.
bit_field_get(m, k) ==
    from_bool(MadctlFields[k].type,
              BitAt(m.data, MadctlFields[k].bit_offset) = 1)

\* A setter that assigns the mask instead of or-ing it in.
bit_field_set_Assign(m, k, value) ==
    LET i == MadctlFields[k].bit_offset
    IN  IF to_bool(MadctlFields[k].type, value)
        THEN [m EXCEPT !.data = @ - BitAt(@, i) * 2^i]
        ELSE [m EXCEPT !.data = 2^i]

\* The setter of the k-th field: `data &= !(1 << i)` for the one variant,
\* `data |= 1 << i` for the zero variant.
bit_field_set(m, k, value) ==
    LET i == MadctlFields[k].bit_offset
    IN  IF to_bool(MadctlFields[k].type, value)
        THEN [m EXCEPT !.data = @ - BitAt(@, i) * 2^i]
        ELSE [m EXCEPT !.data = @ + (1 - BitAt(@, i)) * 2^i]

\* From<Madctl> for u8: the packed byte.
MadctlToU8(mctl) == mctl.data

madctl(data) ==
    Op("command_with_u8", "madctl", <<data.data>>, FALSE, "",
       MADCTL, <<MadctlToU8(data)>>, <<>>, 0, <<>>)

\* From<Colmod> for u8: the discriminant.
Colmod == {"R4G4B4", "R5G6B5", "R6G6B6", "Unknown"}

ColmodToU8(c) ==
    CASE c = "R4G4B4"  -> 3
      [] c = "R5G6B5"  -> 5
      [] c = "R6G6B6"  -> 6
      [] c = "Unknown" -> 7

\* A decode that looks at the three low bits only.
ColmodFromU8_LowBits(raw) ==
    CASE raw % 8 = ColmodToU8("R4G4B4") -> "R4G4B4"
      [] raw % 8 = ColmodToU8("R5G6B5") -> "R5G6B5"
      [] raw % 8 = ColmodToU8("R6G6B6") -> "R6G6B6"
      [] OTHER -> "Unknown"

\* From<u8> for Colmod: the three named discriminants, else Unknown.
ColmodFromU8(raw) ==
    CASE raw = ColmodToU8("R4G4B4") -> "R4G4B4"
      [] raw = ColmodToU8("R5G6B5") -> "R5G6B5"
      [] raw = ColmodToU8("R6G6B6") -> "R6G6B6"
      [] OTHER -> "Unknown"

colmod(data) ==
    Op("command_with_u8", "colmod", <<>>, FALSE, data,
       COLMOD, <<ColmodToU8(data)>>, <<>>, 0, <<>>)

ramwr_op  == NoArgs("ramwr", "ramwr", RAMWR)

rgbset_op == NoArgs("rgbset", "rgbset", RGBSET)

\* The n bits the display answers with, first bit first, for the value v.
Bits(v, n) == [i \in 1..n |-> (v \div (2 ^ (n - i))) % 2]

rdid1(reply) ==
    Op("rdid", "rdid1", <<>>, FALSE, "", RDID1, <<>>, <<>>, 8, reply)

rdid2(reply) ==
    Op("rdid", "rdid2", <<>>, FALSE, "", RDID2, <<>>, <<>>, 8, reply)

rdid3(reply) ==
    Op("rdid", "rdid3", <<>>, FALSE, "", RDID3, <<>>, <<>>, 8, reply)

rddid_op(reply) ==
    Op("rddid", "rddid", <<>>, FALSE, "", RDDID, <<>>, <<>>, 25, reply)

\* `start_reading().read_bits(num_bits)` on a transport: on the mock device
\* (kind read_bits) or on the example's Spi (kind bitbang).
ReadBitsOp(kind, reply) ==
    Op(kind, "read_bits", <<Len(reply)>>, FALSE, "", 0, <<>>, <<>>,
       Len(reply), reply)

\* Several read_bits calls on one reader, with the bits the line will carry.
ReadSessionOp(lens, reply) ==
    Op("read_session", "read_session", lens, FALSE, "", 0, lens, <<>>,
       0, reply)

\* Writes through an AdapterU8s (kind s_*): bytes is the slice the underlying
\* batch write is called with.
SWriteU8Op(data) ==
    Op("s_write_u8", "write_u8", <<data>>, FALSE, "", 0,
       AdapterU8s_write_u8(data), <<>>, 0, <<>>)

SWriteU8sOp(data) ==
    Op("s_write_u8s", "write_u8s", data, FALSE, "", 0,
       AdapterU8s_write_u8s(data), <<>>, 0, <<>>)

\* Writes through a RamWriter (kind rw_*) or through the bare adapter (a_*).
WriteU8Op(kind, data) ==
    Op(kind, "write_u8", <<data>>, FALSE, "", 0, <<data>>, <<>>, 0, <<>>)

WriteU8sOp(kind, name, data) ==
    Op(kind, name, data, FALSE, "", 0, data, <<>>, 0, <<>>)

WriteU16sOp(kind, data) ==
    Op(kind, "write_u16_iter", data, FALSE, "", 0, <<>>, data, 0, <<>>)

\* The commands, session writes and adapter writes the caller picks from.
Commands == { nop, teon(TRUE), caset(4660, 22136), ramwr_op, rdid1(Bits(166, 8)) }

SessionWrites ==
    { WriteU8Op("rw_write_u8", 1),
      WriteU8sOp("rw_write_u8_iter", "write_u8_iter", <<35, 69>>),
      WriteU8sOp("rw_write_u8_iter", "write_u8_iter", <<>>),
      WriteU16sOp("rw_write_u16_iter", <<26505>>),
      WriteU16sOp("rw_write_u16_iter", <<>>) }

AdapterWrites ==
    { WriteU8Op("a_write_u8", 52),
      WriteU8sOp("a_write_u8s", "write_u8s", <<52, 86>>),
      WriteU8sOp("a_write_u8s", "write_u8s", <<>>),
      WriteU16sOp("a_write_u16_iter", <<12816>>) }

RoleOf(kind) ==
    CASE kind \in {"rw_write_u8", "rw_write_u8_iter", "rw_write_u16_iter"}
            -> "pixel"
      [] kind \in {"a_write_u8", "a_write_u8s", "a_write_u8_iter",
                   "a_write_u16_iter", "s_write_u8", "s_write_u8s"} -> "raw"
      [] OTHER -> "param"

\* ---------------------------------------------------------------- Init
\* The pin level before construction is arbitrary (pin0 keeps it); either
\* the transport is wrapped by Commands::new, or an adapter is used bare:
\* AdapterU8 over a byte transport, or AdapterU8s over a batch transport.
Init ==
    /\ user \in {"commands", "adapter", "adapter_u8s"}
    /\ \E pin \in {"command", "data"} :
         spi = [dcx |-> IF user = "commands" THEN CommandsNew(pin) ELSE pin,
                bsy |-> FALSE, dr |-> NoByte, nSent |-> 0,
                overrun |-> FALSE, glitch |-> FALSE,
                reading |-> FALSE, nStart |-> 0, nFinish |-> 0, nRead |-> 0,
                gpio |-> <<>>, regs |-> <<>>, pin0 |-> pin,
                calls |-> <<>>]
    /\ wire = <<>>
    /\ writer = "none"
    /\ task = NoTask
    /\ bw = NoHandle
    /\ run = "idle"
    /\ waked = FALSE
    /\ ops = <<>>

\* --------------------------------------------------------------- actions
\* A log entry: the operation, how it ended ("run" while outstanding), its
\* result, the number of bytes handed to the SPI before it, whether a byte
\* was being shifted out when the caller abandoned it, and the DCX level
\* when it was issued.
Log(op, st) ==
    [op |-> op, st |-> st, res |-> Unit, base |-> spi.nSent,
     inflight |-> FALSE, dcx0 |-> spi.dcx]

SetLast(st, res) == [ops EXCEPT ![Len(ops)].st = st, ![Len(ops)].res = res]

\* The state of the future of `op` when it is created, at position pc.
NewTask(op, pc) ==
    [kind |-> op.kind, pc |-> pc, cmd |-> op.cmd,
     bytes |-> op.bytes, words |-> op.words, cur |-> 0,
     nbits |-> op.nbits, got |-> 0, acc |-> U32(0, 0), bit |-> 0,
     reply |-> op.reply, role |-> RoleOf(op.kind), polls |-> "none",
     wakes |-> 0]

\* A write_u8 that starts its byte only when it is first polled.
StartsAtCall_Never(op) == FALSE

\* Spi::write_u8 (reached through RamWriter::write_u8 and
\* AdapterU8::write_u8, plain functions that forward) calls write_byte when
\* it is called and returns the ByteWriting; every other operation is an
\* async fn or a future that runs nothing before its first poll.
StartsAtCall(op) == op.kind \in {"rw_write_u8", "a_write_u8"}

\* The caller creates the future of `op` and hands it to block_on, which
\* sets the flag before its loop.
Start(op) ==
    /\ run = "idle"
    /\ IF StartsAtCall(op)
       THEN LET r == write_u8(NewTask(op, "start"), spi)
            IN  /\ task' = r.task
                /\ spi' = r.spi
                /\ bw' = Started(r.spi.nSent)
       ELSE /\ task' = NewTask(op, "start")
            /\ UNCHANGED <<spi, bw>>
    /\ run' = "suspended"
    /\ waked' = TRUE
    /\ ops' = Append(ops, Log(op, "run"))
    /\ UNCHANGED <<user, wire, writer>>

\* `block_on(t.start_reading().read_bits(n))`: start_reading runs when the
\* caller builds the future, before block_on polls it.
CallReadBits(op) ==
    /\ user = "adapter" /\ run = "idle"
    /\ spi' = start_reading(spi)
    /\ task' = NewTask(op, IF op.kind = "bitbang" THEN "loop" ELSE "read")
    /\ run' = "suspended"
    /\ waked' = TRUE
    /\ ops' = Append(ops, Log(op, "run"))
    /\ UNCHANGED <<user, wire, writer, bw>>

\* A command method of Commands; the borrow checker rules it out while a
\* RamWriter borrows the Commands object.
CallCommand_NoBorrow(op) ==
    /\ user = "commands"
    /\ Start(op)

CallCommand(op) ==
    /\ user = "commands" /\ writer = "none"
    /\ Start(op)

\* A write through the live RamWriter.
CallWrite(op) ==
    /\ user = "commands" /\ writer # "none"
    /\ Start(op)

\* A write through the bare adapter.
CallAdapter(op) ==
    /\ user = "adapter"
    /\ Start(op)

\* An adapter that does not pass the switch on to the transport.
AdapterSetDcx_Dropped(level) ==
    /\ user = "adapter" /\ run = "idle"
    /\ ops' = Append(ops, Log(NoArgs("set_dcx", level, 0), "done"))
    /\ UNCHANGED <<user, spi, wire, writer, task, bw, run, waked>>

\* DcxPin for AdapterU8, called on the bare adapter.
AdapterSetDcx(level) ==
    /\ user = "adapter" /\ run = "idle"
    /\ spi' = SetDcx(spi, level)
    /\ ops' = Append(ops, Log(NoArgs("set_dcx", level, 0), "done"))
    /\ UNCHANGED <<user, wire, writer, task, bw, run, waked>>

\* A write through a bare AdapterU8s: the underlying batch write is called
\* once, with op.bytes.
CallAdapterU8s(op) ==
    /\ user = "adapter_u8s" /\ run = "idle"
    /\ spi' = [spi EXCEPT !.calls = Append(@, op.bytes)]
    /\ task' = NewTask(op, "start")
    /\ run' = "suspended"
    /\ waked' = TRUE
    /\ ops' = Append(ops, Log(op, "run"))
    /\ UNCHANGED <<user, wire, writer, bw>>

\* DcxPin for AdapterU8s.
AdapterU8sSetDcx(level) ==
    /\ user = "adapter_u8s" /\ run = "idle"
    /\ spi' = SetDcx(spi, level)
    /\ ops' = Append(ops, Log(NoArgs("set_dcx", level, 0), "done"))
    /\ UNCHANGED <<user, wire, writer, task, bw, run, waked>>

\* The caller drops the RamWriter.
Release ==
    /\ run = "idle" /\ writer # "none"
    /\ spi' = RamWriterDrop(spi)
    /\ writer' = "none"
    /\ ops' = Append(ops, Log(NoArgs("drop", "drop_writer", 0), "done"))
    /\ UNCHANGED <<user, wire, task, bw, run, waked>>

\* A block_on that polls without looking at the flag.
BlockOnTest_NoTest ==
    /\ run = "suspended"
    /\ run' = "polling"
    /\ task' = [task EXCEPT !.polls = IF @ = "none" THEN "one" ELSE "many",
                            !.wakes = 0]
    /\ UNCHANGED <<user, spi, wire, writer, bw, ops, waked>>

\* TrivialWaker::block_on: test_waked_and_clear, then poll.
BlockOnTest ==
    /\ run = "suspended" /\ waked
    /\ waked' = FALSE
    /\ run' = "polling"
    /\ task' = [task EXCEPT !.polls = IF @ = "none" THEN "one" ELSE "many",
                            !.wakes = 0]
    /\ UNCHANGED <<user, spi, wire, writer, bw, ops>>

\* ByteWriting's poll without its wake_by_ref.
PollByteWriting_NoWake ==
    /\ run = "polling" /\ bw.status = "Started"
    /\ task.kind # "a_write_u8s"
    /\ IF is_done(bw, spi.bsy)
       THEN /\ bw' = [bw EXCEPT !.status = "Done"]
            /\ UNCHANGED <<run, waked>>
       ELSE /\ UNCHANGED waked
            /\ run' = "suspended"
            /\ bw' = [bw EXCEPT !.pended = TRUE]
    /\ UNCHANGED <<user, spi, wire, writer, task, ops>>

\* Future for ByteWriting: Ready once is_done, else wake and Pending.
PollByteWriting ==
    /\ run = "polling" /\ bw.status = "Started"
    /\ task.kind # "a_write_u8s"
    /\ IF is_done(bw, spi.bsy)
       THEN /\ bw' = [bw EXCEPT !.status = "Done"]
            /\ UNCHANGED <<run, waked>>
       ELSE /\ waked' = TRUE
            /\ run' = "suspended"
            /\ bw' = [bw EXCEPT !.pended = TRUE]
    /\ UNCHANGED <<user, spi, wire, writer, task, ops>>

\* The outstanding future runs from its await point to the next one (r.fin
\* false, a new handle when a byte was started) or to its return.
Advance(r, w) ==
    /\ spi' = r.spi
    /\ IF r.fin
       THEN /\ task' = Finished(task)
            /\ bw' = NoHandle
            /\ run' = "idle"
            /\ writer' = w
            /\ ops' = SetLast("done", r.ret)
       ELSE /\ task' = r.task
            /\ bw' = IF r.spi.nSent # spi.nSent
                     THEN Started(r.spi.nSent)
                     ELSE NoHandle
            /\ UNCHANGED <<run, writer, ops>>
    /\ UNCHANGED <<user, wire, waked>>

Resumable(kind) ==
    /\ run = "polling" /\ bw.status # "Started"
    /\ task.kind = kind /\ task.pc # "read"

PollCommand == Resumable("command") /\ Advance(command(task, spi), writer)

PollCommandWithU8 ==
    Resumable("command_with_u8") /\ Advance(command_with_u8(task, spi), writer)

PollCommandWithU16Pair ==
    /\ Resumable("command_with_u16_pair")
    /\ Advance(command_with_u16_pair(task, spi), writer)

PollCommandWithU16Slice ==
    /\ Resumable("command_with_u16_slice")
    /\ Advance(command_with_u16_slice(task, spi), writer)

PollRamwr == Resumable("ramwr") /\ Advance(ramwr(task, spi), "ramwr")

PollRgbset == Resumable("rgbset") /\ Advance(rgbset(task, spi), "rgbset")

PollWriteU8 ==
    /\ \E k \in {"rw_write_u8", "a_write_u8"} : Resumable(k)
    /\ Advance(write_u8(task, spi), writer)

PollWriteU8Iter ==
    /\ \E k \in {"rw_write_u8_iter", "a_write_u8_iter"} : Resumable(k)
    /\ Advance(write_u8_iter(task, spi), writer)

PollWriteU16Iter ==
    /\ \E k \in {"rw_write_u16_iter", "a_write_u16_iter"} : Resumable(k)
    /\ Advance(write_u16_iter(task, spi), writer)

PollRepeatU8 ==
    /\ run = "polling" /\ task.kind = "a_write_u8s"
    /\ LET r == RepeatU8_poll(task, spi, bw)
       IN  /\ spi' = r.spi
           /\ IF r.fin
              THEN /\ task' = Finished(task)
                   /\ bw' = NoHandle
                   /\ run' = "idle"
                   /\ ops' = SetLast("done", Unit)
                   /\ UNCHANGED waked
              ELSE /\ task' = r.task
                   /\ bw' = r.bw
                   /\ run' = IF r.pending THEN "suspended" ELSE run
                   /\ waked' = (waked \/ r.pending)
                   /\ UNCHANGED ops
    /\ UNCHANGED <<user, wire, writer>>

\* rdid1 / rdid2 / rdid3 resume; at pc "read" once the read future is Ready.
PollRdid ==
    /\ run = "polling" /\ bw.status # "Started"
    /\ task.kind = "rdid"
    /\ task.pc = "read" => task.got = task.nbits
    /\ Advance(rdid(task, spi), writer)

PollRddid ==
    /\ run = "polling" /\ bw.status # "Started"
    /\ task.kind = "rddid"
    /\ task.pc = "read" => task.got = task.nbits
    /\ Advance(rddid(task, spi), writer)

\* The batch write under the AdapterU8s resumes.
PollMockWriteU8s ==
    /\ \E k \in {"s_write_u8", "s_write_u8s"} : Resumable(k)
    /\ Advance(MockDevice_write_u8s(task, spi), writer)

\* read_bits returns once its loop is over.
PollReadBits ==
    /\ run = "polling" /\ task.kind = "read_bits"
    /\ task.got = task.nbits
    /\ Advance(read_bits(task, spi), writer)

\* The block with the read session resumes: at its start, or once the
\* current read_bits is over.
PollReadSession ==
    /\ run = "polling" /\ task.kind = "read_session"
    /\ task.pc = "read" => task.got = task.nbits
    /\ Advance(read_session(task, spi), writer)

\* The example's bit-banged read: the loop runs inside one poll.
PollBitsReaderResult ==
    /\ run = "polling" /\ task.kind = "bitbang"
    /\ Advance(BitsReaderResult_poll(task, spi), writer)

\* The transport's read future, polled at pc "read": it samples the next
\* bit, or it suspends (its per-bit delay) and asks to be polled again.
ReadBit ==
    /\ run = "polling" /\ task.pc = "read" /\ task.got < task.nbits
    /\ task' = ReadCycle(task)
    /\ spi' = [spi EXCEPT !.nRead = @ + 1]
    /\ UNCHANGED <<user, wire, writer, bw, run, waked, ops>>

ReadPending ==
    /\ run = "polling" /\ task.pc = "read" /\ task.got < task.nbits
    /\ waked' = TRUE
    /\ run' = "suspended"
    /\ UNCHANGED <<user, spi, wire, writer, task, bw, ops>>

\* The caller drops the outstanding future between two polls.  Its fields
\* are dropped: a live ByteWriting blocks in its drop until is_done.
Abandon ==
    /\ run = "suspended"
    /\ ops' = [ops EXCEPT ![Len(ops)].st = "abandoned",
                          ![Len(ops)].inflight = spi.bsy]
    /\ IF bw.status = "Started"
       THEN /\ run' = "dropping"
            /\ UNCHANGED <<task, bw>>
       ELSE /\ run' = "idle"
            /\ task' = Finished(task)
            /\ bw' = NoHandle
    /\ UNCHANGED <<user, spi, wire, writer, waked>>

DropByteWriting ==
    /\ run = "dropping"
    /\ DropReturns(bw, spi.bsy)
    /\ run' = "idle"
    /\ task' = Finished(task)
    /\ bw' = NoHandle
    /\ UNCHANGED <<user, spi, wire, writer, waked, ops>>

\* The SPI peripheral finishes shifting the byte out: the display latches
\* it with the DCX level of that moment.
HwFinish ==
    /\ spi.bsy
    /\ spi' = [spi EXCEPT !.bsy = FALSE, !.dr = NoByte]
    /\ wire' = Append(wire, [byte |-> spi.dr.byte, role |-> spi.dr.role,
                             dcx |-> spi.dcx, dcx0 |-> spi.dr.dcx0])
    /\ UNCHANGED <<user, writer, task, bw, run, waked, ops>>

Poll ==
    \/ PollByteWriting
    \/ PollCommand
    \/ PollCommandWithU8
    \/ PollCommandWithU16Pair
    \/ PollRamwr
    \/ PollWriteU8
    \/ PollWriteU8Iter
    \/ PollWriteU16Iter
    \/ PollRepeatU8
    \/ PollRdid
    \/ ReadBit
    \/ ReadPending

\* Number of operations issued so far (drops of a RamWriter are not counted).
NumIssued == Cardinality({i \in 1..Len(ops) : ops[i].op.kind # "drop"})

Issue ==
    /\ NumIssued < MaxOps
    /\ \/ \E op \in Commands : CallCommand(op)
       \/ \E op \in SessionWrites : CallWrite(op)
       \/ \E op \in AdapterWrites : CallAdapter(op)
       \/ \E level \in {"command", "data"} : AdapterSetDcx(level)

Next ==
    \/ Issue
    \/ Release
    \/ BlockOnTest
    \/ Poll
    \/ Abandon
    \/ DropByteWriting
    \/ HwFinish

Spec == Init /\ [][Next]_vars

\* ------------------------------------------------ the example's scheduling
\* block_on and ByteWriting's drop are busy loops of the one CPU, so each of
\* their steps is taken once it stays possible; the peripheral shifts a
\* started byte out in bounded time.  The example's read future completes in
\* its first poll, so no poll of a read returns Pending.
PollFair ==
    \/ PollByteWriting
    \/ PollCommand
    \/ PollCommandWithU8
    \/ PollCommandWithU16Pair
    \/ PollRamwr
    \/ PollWriteU8
    \/ PollWriteU8Iter
    \/ PollWriteU16Iter
    \/ PollRepeatU8
    \/ PollRdid
    \/ ReadBit

NextFair ==
    \/ Issue
    \/ Release
    \/ BlockOnTest
    \/ PollFair
    \/ Abandon
    \/ DropByteWriting
    \/ HwFinish

SpecFair ==
    /\ Init /\ [][NextFair]_vars
    /\ WF_vars(BlockOnTest)
    /\ WF_vars(PollFair)
    /\ WF_vars(DropByteWriting)
    /\ WF_vars(HwFinish)

\* ------------------------------------------- commands run to completion
\* The caller abandons a write made through a live RamWriter only; every
\* command is run to completion.
AbandonWrite == writer # "none" /\ Abandon

NextCompleted ==
    \/ Issue
    \/ Release
    \/ BlockOnTest
    \/ Poll
    \/ AbandonWrite
    \/ DropByteWriting
    \/ HwFinish

SpecCompleted == Init /\ [][NextCompleted]_vars

\* --------------------------------- one fixed command on a fresh Commands
U16Values == {0, 255, 256, 4660, 22136, 65535}

MadctlValues == {[data |-> d] : d \in {0, 60, 192, 252}}

FixedCommands ==
    {nop, swreset, slpin, slpout, ptlon, noron, invoff, invon, dispoff,
     dispon, teoff, idmoff, idmon}
    \cup {teon(b) : b \in BOOLEAN}
    \cup {madctl(m) : m \in MadctlValues}
    \cup {colmod(c) : c \in Colmod}
    \cup {caset(b, e) : b, e \in U16Values}
    \cup {raset(b, e) : b, e \in U16Values}
    \cup {ptlar(b, e) : b, e \in U16Values}
    \cup {scrlar(t, v, b) : t, v, b \in U16Values}

IssueFixed == ops = <<>> /\ \E op \in FixedCommands : CallCommand(op)

NextFixed ==
    \/ IssueFixed
    \/ BlockOnTest
    \/ PollByteWriting
    \/ PollCommand
    \/ PollCommandWithU8
    \/ PollCommandWithU16Pair
    \/ PollCommandWithU16Slice
    \/ HwFinish

SpecFixed == Init /\ [][NextFixed]_vars

\* ------------------------------------------------ one RamWriter session
SessionWritesFull ==
    { WriteU8Op("rw_write_u8", 1),
      WriteU8sOp("rw_write_u8_iter", "write_u8_iter", <<35, 69>>),
      WriteU8sOp("rw_write_u8_iter", "write_u8_iter", <<>>),
      WriteU16sOp("rw_write_u16_iter", <<26505, 43981>>),
      WriteU16sOp("rw_write_u16_iter", <<>>) }

IssueSession ==
    \/ ops = <<>> /\ \E op \in {ramwr_op, rgbset_op} : CallCommand(op)
    \/ /\ NumIssued < 1 + MaxWrites
       /\ \E op \in SessionWritesFull : CallWrite(op)

NextSession ==
    \/ IssueSession
    \/ Release
    \/ BlockOnTest
    \/ PollByteWriting
    \/ PollRamwr
    \/ PollRgbset
    \/ PollWriteU8
    \/ PollWriteU8Iter
    \/ PollWriteU16Iter
    \/ HwFinish

SpecSession == Init /\ [][NextSession]_vars

\* ------------------------------------------- one wide-value batch write
WordSeqs ==
    UNION {[1..n -> U16Values] : n \in 0..MaxWords}

IssueWide ==
    /\ ops = <<>>
    /\ \E ws \in WordSeqs : CallAdapter(WriteU16sOp("a_write_u16_iter", ws))

NextWide ==
    \/ IssueWide
    \/ BlockOnTest
    \/ PollByteWriting
    \/ PollWriteU16Iter
    \/ HwFinish

SpecWide == Init /\ [][NextWide]_vars

\* ------------------------------------ one read command on a fresh Commands
\* The display's answers: every 8-bit pattern, and for the 25-bit read the
\* patterns 0b0_11110000_11010010_01100001, the same with the first (dummy)
\* bit set, all zeros, all ones, and 0b1_01111100_10001001_11110000.
Replies8 == [1..8 -> {0, 1}]

Replies25 ==
    {Bits(v, 25) : v \in {15782497, 32559713, 0, 33554431, 24938992}}

ReadCommands ==
    {rdid1(b) : b \in Replies8} \cup {rdid2(b) : b \in Replies8}
    \cup {rdid3(b) : b \in Replies8} \cup {rddid_op(b) : b \in Replies25}

IssueRead == ops = <<>> /\ \E op \in ReadCommands : CallCommand(op)

NextRead ==
    \/ IssueRead
    \/ BlockOnTest
    \/ PollByteWriting
    \/ PollRdid
    \/ PollRddid
    \/ ReadBit
    \/ ReadPending
    \/ HwFinish

SpecRead == Init /\ [][NextRead]_vars

\* -------------------------------- a ByteWriting held and used by hand
\* `let mut h = spi.write_u8(b);` then h.is_done(), a poll of h, drop(h), in
\* any order and number.  A call is logged with the handle's status (sym)
\* and SR.BSY (flag) as the call found them, and what it returned: 1 for
\* true or Ready, 0 for false or Pending.
HandleOp(name) == Op("handle", name, <<>>, spi.bsy, bw.status, 0, <<>>, <<>>, 0, <<>>)

HandleWrite ==
    /\ run = "idle" /\ user = "adapter" /\ bw.status = "None"
    /\ Len(ops) < MaxCalls
    /\ spi' = write_byte(spi, 1, "pixel")
    /\ bw' = Started(spi.nSent + 1)
    /\ ops' = Append(ops, [Log(HandleOp("write_u8"), "done") EXCEPT !.res = <<>>])
    /\ UNCHANGED <<user, wire, writer, task, run, waked>>

\* h.is_done(), or a poll of h (which invokes the waker before Pending).
HandleCall ==
    /\ run = "idle" /\ bw.status \in {"Started", "Done"}
    /\ Len(ops) < MaxCalls
    /\ \E name \in {"is_done", "poll"} :
         LET r == is_done(bw, spi.bsy)
         IN  /\ bw' = IF r THEN [bw EXCEPT !.status = "Done"] ELSE bw
             /\ waked' = (waked \/ (name = "poll" /\ ~r))
             /\ ops' = Append(ops, [Log(HandleOp(name), "done")
                                      EXCEPT !.res = <<IF r THEN 1 ELSE 0>>])
    /\ UNCHANGED <<user, spi, wire, writer, task, run>>

\* drop(h) returns: `while !self.is_done() {}` has ended.
HandleDrop ==
    /\ run = "idle" /\ bw.status \in {"Started", "Done"}
    /\ Len(ops) < MaxCalls
    /\ DropReturns(bw, spi.bsy)
    /\ bw' = NoHandle
    /\ ops' = Append(ops, Log(HandleOp("drop"), "done"))
    /\ UNCHANGED <<user, spi, wire, writer, task, run, waked>>

\* send_spi1_byte for a later byte while a handle that is Done is still
\* held (the borrow in write_byte keeps safe callers from doing this).
LaterByte ==
    /\ run = "idle" /\ bw.status = "Done" /\ ~spi.bsy
    /\ spi.nSent < MaxCalls
    /\ spi' = send_spi1_byte(spi, 2, "pixel")
    /\ UNCHANGED <<user, wire, writer, task, bw, run, waked, ops>>

NextHandle ==
    \/ HandleWrite
    \/ HandleCall
    \/ HandleDrop
    \/ LaterByte
    \/ HwFinish

SpecHandle == Init /\ [][NextHandle]_vars

\* ------------------------------ two rddid in a row on the same Commands
\* The display's answers: each of four 24-bit patterns (the test's
\* 0xF0D261, all zeros, all ones, 0x7C89F0) after a first bit of 0 and of 1.
IssueRddid ==
    /\ Len(ops) < 2
    /\ \E d \in {0, 1} : \E v \in {15782497, 0, 16777215, 8161776} :
         CallCommand(rddid_op(<<d>> \o Bits(v, 24)))

NextRddidPair ==
    \/ IssueRddid
    \/ BlockOnTest
    \/ PollByteWriting
    \/ PollRddid
    \/ ReadBit
    \/ ReadPending
    \/ HwFinish

SpecRddidPair == Init /\ [][NextRddidPair]_vars

\* ------------------------------- one bit-banged read, statement by statement
IssueBitBang ==
    /\ ops = <<>>
    /\ \E n \in 0..MaxCycles : \E reply \in [1..n -> {0, 1}] :
         CallReadBits(ReadBitsOp("bitbang", reply))

NextBitBang ==
    \/ IssueBitBang
    \/ BlockOnTest
    \/ PollBitsReaderResult

SpecBitBang == Init /\ [][NextBitBang]_vars

\* --------------------------------------- one read_bits(n) on a transport
\* The line patterns of n bits: all 0, all 1, alternating from 1 and from
\* 0, only the first bit set, only the last bit set, 10100110 repeated.
ReadPatterns(n) ==
    { [i \in 1..n |-> 0], [i \in 1..n |-> 1],
      [i \in 1..n |-> i % 2], [i \in 1..n |-> (i + 1) % 2],
      [i \in 1..n |-> IF i = 1 THEN 1 ELSE 0],
      [i \in 1..n |-> IF i = n THEN 1 ELSE 0],
      [i \in 1..n |-> Bits(166, 8)[((i - 1) % 8) + 1]] }

IssueReadBits ==
    /\ ops = <<>>
    /\ \E n \in 0..MaxReadBits : \E reply \in ReadPatterns(n) :
         CallReadBits(ReadBitsOp("read_bits", reply))

NextReadBits ==
    \/ IssueReadBits
    \/ BlockOnTest
    \/ ReadBit
    \/ ReadPending
    \/ PollReadBits

SpecReadBits == Init /\ [][NextReadBits]_vars

\* ------------------ one read_bits(n) of any length, on either transport
\* The mock device's read_bits and the example's bit-banged one, with the
\* same line patterns of 0 to MaxReadBits bits.
NextReadEdge ==
    \/ /\ ops = <<>>
       /\ \E n \in 0..MaxReadBits : \E reply \in ReadPatterns(n) :
            CallReadBits(ReadBitsOp("bitbang", reply))
    \/ NextReadBits
    \/ PollBitsReaderResult

SpecReadEdge == Init /\ [][NextReadEdge]_vars

\* ------------------------------ one read session with several read_bits
\* Up to MaxReads calls of 0 to 2 bits with every line pattern, and the
\* calls of the test read_data: 11 bits 0b10010101101, 9 bits 0b010101111.
\* SumTo(lens, k) is the number of bits the first k calls read.
RECURSIVE SumTo(_, _)
SumTo(lens, k) == IF k = 0 THEN 0 ELSE SumTo(lens, k - 1) + lens[k]

NextReadSession ==
    \/ /\ ops = <<>> /\ user = "adapter"
       /\ \/ \E k \in 0..MaxReads : \E lens \in [1..k -> 0..2] :
               \E reply \in [1..SumTo(lens, k) -> {0, 1}] :
                 Start(ReadSessionOp(lens, reply))
          \/ Start(ReadSessionOp(<<11, 9>>, Bits(1197, 11) \o Bits(175, 9)))
    \/ BlockOnTest
    \/ ReadBit
    \/ ReadPending
    \/ PollReadSession

SpecReadSession == Init /\ [][NextReadSession]_vars

\* ------------------------- the same calls on either adapter, to completion
ByteAdapterWrites ==
    { WriteU8Op("a_write_u8", 55),
      WriteU8sOp("a_write_u8s", "write_u8s", <<52, 86>>),
      WriteU8sOp("a_write_u8s", "write_u8s", <<>>) }

BatchAdapterWrites ==
    { SWriteU8Op(55), SWriteU8sOp(<<52, 86>>), SWriteU8sOp(<<>>) }

IssueAdapters ==
    /\ Len(ops) < MaxAdapterOps
    /\ \/ \E op \in ByteAdapterWrites : CallAdapter(op)
       \/ \E op \in BatchAdapterWrites : CallAdapterU8s(op)
       \/ \E level \in {"command", "data"} : AdapterSetDcx(level)
       \/ \E level \in {"command", "data"} : AdapterU8sSetDcx(level)

NextAdapters ==
    \/ IssueAdapters
    \/ BlockOnTest
    \/ PollByteWriting
    \/ PollWriteU8
    \/ PollRepeatU8
    \/ PollMockWriteU8s
    \/ HwFinish

SpecAdapters == Init /\ [][NextAdapters]_vars

\* ------------------------------------------------- Colmod's conversions
\* u8::from(c) and Colmod::from(raw) applied to every value of their
\* types; Colmod::from is also applied to what u8::from just returned.
U8Values == 0..255

ColmodInto(c) ==
    /\ ops = <<>>
    /\ ops' = <<[Log(Op("convert", "u8_from_colmod", <<>>, FALSE, c,
                        0, <<>>, <<>>, 0, <<>>), "done")
                  EXCEPT !.res = <<ColmodToU8(c)>>]>>
    /\ UNCHANGED <<user, spi, wire, writer, task, bw, run, waked>>

ColmodFrom(raw) ==
    /\ \/ ops = <<>>
       \/ Len(ops) = 1 /\ ops[1].op.name = "u8_from_colmod"
    /\ ops' = Append(ops, [Log(Op("convert", "colmod_from_u8", <<raw>>, FALSE,
                                  ColmodFromU8(raw), 0, <<>>, <<>>, 0, <<>>),
                              "done")
                           EXCEPT !.res = <<ColmodToU8(ColmodFromU8(raw))>>])
    /\ UNCHANGED <<user, spi, wire, writer, task, bw, run, waked>>

NextColmod ==
    \/ \E c \in Colmod : ColmodInto(c)
    \/ \E raw \in U8Values : ColmodFrom(raw)

SpecColmod == Init /\ [][NextColmod]_vars

\* ----------------------------------------- a Madctl built up and then sent
\* The caller starts from Madctl::default(), calls the six setters in the
\* order of the source (as the tests and the doc example do) and hands the
\* value to Commands::madctl, or goes on calling any setters.
CurMadctl ==
    IF ops = <<>> THEN Madctl_default ELSE [data |-> ops[Len(ops)].res[1]]

SetMadctl(k, value) ==
    /\ user = "commands" /\ run = "idle"
    /\ Len(ops) < MaxSets
    /\ \A i \in 1..Len(ops) : ops[i].op.kind = "set"
    /\ Len(ops) < Len(MadctlFields) => k = Len(ops) + 1
    /\ ops' = Append(ops,
                 [Log(Op("set", MadctlFields[k].name, <<CurMadctl.data>>,
                         FALSE, value, 0, <<>>, <<>>, 0, <<>>), "done")
                  EXCEPT !.res = <<bit_field_set(CurMadctl, k, value).data>>])
    /\ UNCHANGED <<user, spi, wire, writer, task, bw, run, waked>>

SendMadctl ==
    /\ Len(ops) = Len(MadctlFields)
    /\ \A i \in 1..Len(ops) : ops[i].op.kind = "set"
    /\ CallCommand(madctl(CurMadctl))

NextMadctl ==
    \/ \E k \in 1..Len(MadctlFields) :
         \E value \in {BitTypes[MadctlFields[k].type][n] : n \in 1..2} :
           SetMadctl(k, value)
    \/ SendMadctl
    \/ BlockOnTest
    \/ PollByteWriting
    \/ PollCommandWithU8
    \/ HwFinish

SpecMadctl == Init /\ [][NextMadctl]_vars

\* ------------------------------------------- block_on of an arbitrary future
\* block_on accepts any F: Future.  A future is described by its polls that
\* return Pending, in order: 1 when that poll invokes the waker before it
\* returns, 0 when it does not; the poll after the last of them is Ready.
FutureOp(wakes) ==
    Op("future", "future", wakes, FALSE, "", 0, wakes, <<>>, 0, <<>>)

Futures == {FutureOp(w) : w \in UNION {[1..n -> {0, 1}] : n \in 0..MaxPendings}}

CallFuture(op) == Start(op)

\* `pinned.poll(&mut ctx)` on such a future.
PollFuture ==
    /\ run = "polling" /\ task.kind = "future"
    /\ IF task.cur < Len(task.bytes)
       THEN /\ task' = [task EXCEPT !.cur = @ + 1]
            /\ waked' = (waked \/ task.bytes[task.cur + 1] = 1)
            /\ run' = "suspended"
            /\ UNCHANGED ops
       ELSE /\ task' = Finished(task)
            /\ run' = "idle"
            /\ ops' = SetLast("done", Unit)
            /\ UNCHANGED waked
    /\ UNCHANGED <<user, spi, wire, writer, bw>>

IssueBlockOn ==
    /\ NumIssued < MaxOps
    /\ \/ \E op \in Futures : CallFuture(op)
       \/ \E op \in {nop, teon(TRUE)} : CallCommand(op)

NextBlockOn ==
    \/ IssueBlockOn
    \/ BlockOnTest
    \/ PollFuture
    \/ PollByteWriting
    \/ PollCommand
    \/ PollCommandWithU8
    \/ HwFinish

SpecBlockOn == Init /\ [][NextBlockOn]_vars

\* --------------------------------- block_on with wake-ups from an interrupt
\* vt_wake through a clone of the waker, called outside the poll (by an
\* interrupt handler) while block_on runs: TrivialWaker::wake stores true.
VtWake_LostDuringPoll ==
    /\ run \in {"suspended", "polling"}
    /\ task.wakes < MaxWakes
    /\ waked' = (waked \/ run = "suspended")
    /\ task' = [task EXCEPT !.wakes = @ + 1]
    /\ UNCHANGED <<user, spi, wire, writer, bw, run, ops>>

VtWake ==
    /\ run \in {"suspended", "polling"}
    /\ task.wakes < MaxWakes
    /\ waked' = TRUE
    /\ task' = [task EXCEPT !.wakes = @ + 1]
    /\ UNCHANGED <<user, spi, wire, writer, bw, run, ops>>

NextWake ==
    \/ NextBlockOn
    \/ VtWake

\* block_on is a busy loop and a poll returns; the peripheral shifts a
\* started byte out in bounded time.  Nothing obliges an interrupt to come.
SpecWake ==
    /\ Init /\ [][NextWake]_vars
    /\ WF_vars(BlockOnTest)
    /\ WF_vars(PollFuture \/ PollByteWriting \/ PollCommand
                \/ PollCommandWithU8)
    /\ WF_vars(HwFinish)

\* ============================================================ properties
\* The bytes the display received, as (framing, value) pairs.
Frames(w) == [i \in 1..Len(w) |-> [dcx |-> w[i].dcx, byte |-> w[i].byte]]

CmdFrame(b) == [dcx |-> "command", byte |-> b]

DataFrame(b) == [dcx |-> "data", byte |-> b]

DataFrames(bs) == [i \in 1..Len(bs) |-> DataFrame(bs[i])]

\* The framing a byte of a given role must have.
FramedAs(e, level) == e.dcx0 = level /\ e.dcx = level

RoleFraming(e) ==
    /\ e.role = "opcode" => FramedAs(e, "command")
    /\ e.role \in {"param", "pixel"} => FramedAs(e, "data")

\* C1: when every command runs to completion and RamWriter sessions are
\* released, every opcode byte is handed to the SPI and latched by the
\* display in command mode, every parameter and pixel byte in data mode,
\* and DCX is in command mode whenever a command can begin.
C1_CommandsFramed ==
    /\ \A i \in 1..Len(wire) : RoleFraming(wire[i])
    /\ spi.bsy => (spi.dr.role = "opcode" => spi.dr.dcx0 = "command")
                  /\ (spi.dr.role \in {"param", "pixel"}
                        => spi.dr.dcx0 = "data")
    /\ (user = "commands" /\ run = "idle" /\ writer = "none")
          => spi.dcx = "command"

\* A parameter command completed after a RamWriter session that wrote
\* bytes was released.
C1_Witness ==
    /\ run = "idle" /\ Len(ops) = 3
    /\ ops[1].op.kind = "ramwr" /\ ops[1].st = "done"
    /\ ops[2].op.name = "drop_writer"
    /\ ops[3].op.name = "caset" /\ ops[3].st = "done"
    /\ Len(wire) = 6

\* C2: dropping a byte-write handle does not return while the SPI is busy:
\* no byte is ever handed to the SPI while the previous one is being shifted
\* out, the caller never has control with the SPI still busy, and every byte
\* handed to the SPI, the abandoned ones too, reaches the wire.
C2_AbandonedByteCompletes ==
    /\ ~spi.overrun
    /\ run = "idle" => ~spi.bsy
    /\ spi.nSent = Len(wire) + (IF spi.bsy THEN 1 ELSE 0)

\* A byte write was abandoned while its byte was being shifted out, and
\* the next operation has put its own byte on the wire after it.
C2_Witness ==
    /\ Len(ops) = 2 /\ run = "idle"
    /\ ops[1].st = "abandoned" /\ ops[1].inflight
    /\ ops[2].st = "done" /\ ops[2].base = 1
    /\ Len(wire) = 2

\* C3: right after a RamWriter is dropped the DCX line is in command mode.
C3_ReleaseRestoresCommandMode ==
    (Len(ops) > 0 /\ ops[Len(ops)].op.name = "drop_writer")
        => spi.dcx = "command"

\* The RamWriter was dropped right after a write through it was abandoned
\* with its byte still being shifted out.
C3_Witness ==
    /\ Len(ops) = 3
    /\ ops[1].op.kind = "ramwr"
    /\ ops[2].op.kind = "rw_write_u8" /\ ops[2].st = "abandoned"
    /\ ops[2].inflight
    /\ ops[3].op.name = "drop_writer"

\* The two bytes of a 16-bit value, most significant first, and the bytes
\* of a sequence of 16-bit values.
BigEndian(v) == <<v \div 256, v - 256 * (v \div 256)>>

RECURSIVE BigEndianAll(_)
BigEndianAll(vs) ==
    IF vs = <<>> THEN <<>> ELSE BigEndian(Head(vs)) \o BigEndianAll(Tail(vs))

\* The opcode table of the fixed commands.
OpcodeOf(name) ==
    CASE name = "nop"     -> 0    \* 0x00
      [] name = "swreset" -> 1    \* 0x01
      [] name = "slpin"   -> 16   \* 0x10
      [] name = "slpout"  -> 17   \* 0x11
      [] name = "ptlon"   -> 18   \* 0x12
      [] name = "noron"   -> 19   \* 0x13
      [] name = "invoff"  -> 32   \* 0x20
      [] name = "invon"   -> 33   \* 0x21
      [] name = "dispoff" -> 40   \* 0x28
      [] name = "dispon"  -> 41   \* 0x29
      [] name = "caset"   -> 42   \* 0x2A
      [] name = "raset"   -> 43   \* 0x2B
      [] name = "ptlar"   -> 48   \* 0x30
      [] name = "scrlar"  -> 51   \* 0x33
      [] name = "teoff"   -> 52   \* 0x34
      [] name = "teon"    -> 53   \* 0x35
      [] name = "madctl"  -> 54   \* 0x36
      [] name = "idmoff"  -> 56   \* 0x38
      [] name = "idmon"   -> 57   \* 0x39
      [] name = "colmod"  -> 58   \* 0x3A

\* The parameter bytes of a fixed command, from the caller's arguments.
ParamsOf(op) ==
    CASE op.name \in {"caset", "raset", "ptlar", "scrlar"}
            -> BigEndianAll(op.args)
      [] op.name = "teon"   -> <<IF op.flag THEN 1 ELSE 0>>
      [] op.name = "madctl" -> <<op.args[1]>>
      [] op.name = "colmod" ->
            <<CASE op.sym = "R4G4B4" -> 3 [] op.sym = "R5G6B5" -> 5
                [] op.sym = "R6G6B6" -> 6 [] OTHER -> 7>>
      [] OTHER -> <<>>

\* C4: a fixed command run to completion on a fresh Commands object leaves
\* on the bus exactly its opcode byte, command-framed, followed by its
\* parameter bytes in field order, data-framed; while it runs, the bus holds
\* no more bytes than that.
C4_FixedCommandTrace ==
    Len(ops) = 1 =>
        LET expected == <<CmdFrame(OpcodeOf(ops[1].op.name))>>
                        \o DataFrames(ParamsOf(ops[1].op))
        IN  /\ Len(wire) <= Len(expected)
            /\ ops[1].st = "done" => Frames(wire) = expected

\* caset(0x1234, 0x5678) completed with [0x2A, 0x12, 0x34, 0x56, 0x78].
C4_Witness ==
    /\ run = "idle" /\ Len(ops) = 1 /\ ops[1].st = "done"
    /\ ops[1].op.name = "caset" /\ ops[1].op.args = <<4660, 22136>>
    /\ Frames(wire) = <<CmdFrame(42), DataFrame(18), DataFrame(52),
                        DataFrame(86), DataFrame(120)>>

\* C5: write_u16_iter emits for each value v exactly two bytes, v >> 8 first
\* and v & 0xFF second, the pairs in the order of the values.
C5_BigEndianPairs ==
    Len(ops) = 1 =>
        LET vs == ops[1].op.args
        IN  /\ Len(wire) <= 2 * Len(vs)
            /\ \A k \in 1..Len(vs) :
                 /\ 2 * k - 1 <= Len(wire)
                      => wire[2 * k - 1].byte = vs[k] \div 256
                 /\ 2 * k <= Len(wire)
                      => /\ wire[2 * k].byte \in 0..255
                         /\ wire[2 * k - 1].byte * 256 + wire[2 * k].byte
                              = vs[k]
            /\ ops[1].st = "done" => Len(wire) = 2 * Len(vs)

\* [0x1234, 0x00FF] written as [0x12, 0x34, 0x00, 0xFF].
C5_Witness ==
    /\ Len(ops) = 1 /\ ops[1].st = "done"
    /\ ops[1].op.args = <<4660, 255>>
    /\ [i \in 1..Len(wire) |-> wire[i].byte] = <<18, 52, 0, 255>>

\* The bytes written through the RamWriter by the operations from the i-th
\* on, from the callers' arguments.
RECURSIVE SessionBytes(_, _)
SessionBytes(log, i) ==
    IF i > Len(log) THEN <<>>
    ELSE (CASE log[i].op.kind = "rw_write_u16_iter"
                  -> BigEndianAll(log[i].op.args)
            [] log[i].op.kind \in {"rw_write_u8", "rw_write_u8_iter"}
                  -> log[i].op.args
            [] OTHER -> <<>>)
         \o SessionBytes(log, i + 1)

\* C6: whenever the caller has control during or after a session opened by
\* ramwr or rgbset, the bus trace is the command-framed opcode (0x2C or 0x2D)
\* followed by every byte written through the RamWriter so far, in the order
\* of the writes, 16-bit values big-endian, all data-framed.
C6_SessionTrace ==
    (run = "idle" /\ Len(ops) > 0) =>
        Frames(wire)
          = <<CmdFrame(IF ops[1].op.name = "ramwr" THEN 44 ELSE 45)>>
            \o DataFrames(SessionBytes(ops, 2))

\* ramwr, then 0x01, [0x23, 0x45], [], u16 [0x6789, 0xABCD], [] gave
\* [0x2C, 0x01, 0x23, 0x45, 0x67, 0x89, 0xAB, 0xCD].
C6_Witness ==
    /\ run = "idle" /\ Len(ops) = 6
    /\ ops[1].op.name = "ramwr"
    /\ ops[2].op.kind = "rw_write_u8" /\ ops[2].op.args = <<1>>
    /\ ops[3].op.kind = "rw_write_u8_iter" /\ ops[3].op.args = <<35, 69>>
    /\ ops[4].op.kind = "rw_write_u8_iter" /\ ops[4].op.args = <<>>
    /\ ops[5].op.kind = "rw_write_u16_iter"
    /\ ops[5].op.args = <<26505, 43981>>
    /\ ops[6].op.kind = "rw_write_u16_iter" /\ ops[6].op.args = <<>>
    /\ Frames(wire) = <<CmdFrame(44), DataFrame(1), DataFrame(35),
                        DataFrame(69), DataFrame(103), DataFrame(137),
                        DataFrame(171), DataFrame(205)>>

\* The k-th byte handed to the SPI: on the wire, or being shifted out.
StartedByte(k) == IF k <= Len(wire) THEN wire[k].byte ELSE spi.dr.byte

BatchKinds == {"a_write_u8s", "rw_write_u8_iter"}

\* C7: a batch write built on the single-byte write (RepeatU8, and the async
\* write_u8_iter) hands its bytes to the SPI in their given order, never
\* hands one over while the previous one is still being shifted out, and is
\* done only when all its bytes have been handed over and the last one has
\* left the SPI.
C7_BatchInOrder ==
    /\ ~spi.overrun
    /\ \A i \in 1..Len(ops) :
         ops[i].op.kind \in BatchKinds =>
           LET first == ops[i].base
               last  == IF i < Len(ops) THEN ops[i + 1].base ELSE spi.nSent
           IN  /\ last - first <= Len(ops[i].op.args)
               /\ \A k \in 1..(last - first) :
                    StartedByte(first + k) = ops[i].op.args[k]
               /\ ops[i].st = "done"
                    => /\ last - first = Len(ops[i].op.args)
                       /\ Len(wire) >= last

\* A RepeatU8 batch of two bytes has completed after another write, both
\* its bytes on the wire.
C7_Witness ==
    /\ run = "idle" /\ Len(ops) = 2
    /\ ops[2].op.kind = "a_write_u8s" /\ ops[2].st = "done"
    /\ ops[2].op.args = <<52, 86>> /\ ops[2].base = 1
    /\ Len(wire) = 3 /\ wire[2].byte = 52 /\ wire[3].byte = 86

\* C8: a byte-write handle is Done only when the byte that was started with
\* it has left the SPI and is on the wire.
C8_DoneOnlyAfterTransmission ==
    bw.status = "Done" => (~spi.bsy /\ Len(wire) = bw.id)

\* A handle that answered Pending while its byte was being shifted out has
\* become Done.
C8_Witness == bw.status = "Done" /\ bw.pended

\* C9: the DCX line never changes level while a byte is being shifted out:
\* every byte is latched with the level it was started with, and no byte is
\* handed to the SPI before the previous one has left it.
C9_DcxStableDuringTransfer ==
    /\ ~spi.glitch
    /\ ~spi.overrun
    /\ spi.bsy => spi.dcx = spi.dr.dcx0
    /\ \A i \in 1..Len(wire) : wire[i].dcx = wire[i].dcx0

\* A command with parameters has completed: DCX went to data mode after the
\* opcode and back to command mode after the last parameter byte.
C9_Witness ==
    /\ run = "idle" /\ Len(ops) = 1 /\ ops[1].st = "done"
    /\ ops[1].op.name = "caset"
    /\ Len(wire) = 5 /\ wire[1].dcx = "command" /\ wire[5].dcx = "data"
    /\ spi.dcx = "command"

\* C10: whenever the caller has control, every read session that was started
\* has been finished exactly once, and no opcode is handed to the SPI while
\* the bus is still in read mode.
C10_ReadSessionReleased ==
    /\ run = "idle" => (~spi.reading /\ spi.nFinish = spi.nStart)
    /\ (spi.bsy /\ spi.dr.role = "opcode") => ~spi.reading

\* The number whose binary digits are the given bits, first bit first.
RECURSIVE BitsValue(_)
BitsValue(bits) ==
    IF bits = <<>> THEN 0
    ELSE 2 * BitsValue(SubSeq(bits, 1, Len(bits) - 1)) + bits[Len(bits)]

\* The opcode and the declared bit count of the read commands.
ReadOpcodeOf(name) ==
    CASE name = "rddid" -> 4      \* 0x04
      [] name = "rdid1" -> 218    \* 0xDA
      [] name = "rdid2" -> 219    \* 0xDB
      [] name = "rdid3" -> 220    \* 0xDC

DeclaredBits(name) == IF name = "rddid" THEN 25 ELSE 8

\* C11: a read command writes its opcode in command mode, then switches to
\* read mode once, then reads its declared number of bits, then switches
\* back once, in this order; rdid1/rdid2/rdid3 return the eight bits read,
\* first bit most significant.
C11_ReadCommandSequence ==
    Len(ops) = 1 =>
        LET op == ops[1].op
            n  == DeclaredBits(op.name)
        IN  /\ spi.nStart <= 1 /\ spi.nFinish <= spi.nStart
            /\ spi.reading = (spi.nStart = 1 /\ spi.nFinish = 0)
            /\ spi.nStart = 1
                 => /\ ~spi.bsy
                    /\ Frames(wire) = <<CmdFrame(ReadOpcodeOf(op.name))>>
            /\ spi.nRead <= n
            /\ spi.nRead > 0 => spi.nStart = 1
            /\ spi.nFinish = 1 => spi.nRead = n
            /\ ops[1].st = "done"
                 => /\ spi.nStart = 1 /\ spi.nFinish = 1
                    /\ op.name # "rddid"
                         => ops[1].res = <<BitsValue(op.reply)>>

\* rdid1 completed: the line bits 10100110 gave 0xA6.
C11_Witness ==
    /\ run = "idle" /\ Len(ops) = 1 /\ ops[1].st = "done"
    /\ ops[1].op.name = "rdid1"
    /\ ops[1].op.reply = <<1, 0, 1, 0, 0, 1, 1, 0>>
    /\ ops[1].res = <<166>>
    /\ spi.nRead = 8 /\ spi.nFinish = 1

\* C12: rddid returns three bytes of the 25 bits it read: counting the bits
\* from 25 (read first) down to 1 (read last), the high byte is bits 24..17,
\* the middle byte bits 16..9 and the low byte bits 8..1; the first bit read
\* is in none of them.
C12_RddidSplit ==
    (Len(ops) = 1 /\ ops[1].st = "done" /\ ops[1].op.name = "rddid") =>
        LET b == ops[1].op.reply
        IN  ops[1].res = <<BitsValue(SubSeq(b, 2, 9)),
                           BitsValue(SubSeq(b, 10, 17)),
                           BitsValue(SubSeq(b, 18, 25))>>

\* rddid completed on 0b0_11110000_11010010_01100001 with [0xF0, 0xD2, 0x61].
C12_Witness ==
    /\ Len(ops) = 1 /\ ops[1].st = "done" /\ ops[1].op.name = "rddid"
    /\ BitsValue(ops[1].op.reply) = 15782497
    /\ ops[1].res = <<240, 210, 97>>

\* The pin accesses of one read cycle.
Cycle == <<ClockLow, delay, SampleLine, ClockHigh, delay>>

\* C13: a bit-banged read of n bits makes exactly n read cycles, each: clock
\* low, settle, sample the data line once, clock high, settle; it drives no
\* other pin, and the bit of a cycle is accumulated before the next cycle's
\* first pin access.
C13_ReadCycles ==
    Len(ops) = 1 =>
        LET n == ops[1].op.args[1]
            g == spi.gpio
        IN  /\ Len(g) <= 5 * n
            /\ \A i \in 1..Len(g) : g[i] = Cycle[((i - 1) % 5) + 1]
            /\ \A i \in 1..Len(g) :
                 g[i].act \in {"set", "reset"} => g[i].pin = "PA5"
            /\ task.kind = "bitbang"
                 => /\ 5 * task.got <= Len(g)
                    /\ Len(g) <= 5 * task.got + 5
                    /\ task.acc.hi = 0
                    /\ task.acc.lo
                         = BitsValue(SubSeq(ops[1].op.reply, 1, task.got))
            /\ ops[1].st = "done" => (Len(g) = 5 * n /\ spi.nRead = n)

\* Three cycles sampled 1, 0, 1: fifteen pin accesses and the value 5.
C13_Witness ==
    /\ Len(ops) = 1 /\ ops[1].st = "done"
    /\ ops[1].op.kind = "bitbang"
    /\ ops[1].op.reply = <<1, 0, 1>>
    /\ Len(spi.gpio) = 15
    /\ ops[1].res = <<0, 5>>

\* The value with the binary digits b[1..k], as the two 16-bit halves of a
\* 32-bit number (k <= 32).
HalvesOf(b, k) ==
    IF k <= 16 THEN <<0, BitsValue(SubSeq(b, 1, k))>>
    ELSE <<BitsValue(SubSeq(b, 1, k - 16)), BitsValue(SubSeq(b, k - 15, k))>>

\* C14: read_bits(n) with n <= 32 returns the number whose binary digits are
\* the n sampled bits, first sampled bit first, a number below 2^n; while it
\* runs, the accumulator holds the number made of the bits sampled so far.
C14_MsbFirstValue ==
    (Len(ops) = 1 /\ ops[1].op.args[1] <= 32) =>
        LET n == ops[1].op.args[1]
            b == ops[1].op.reply
        IN  /\ task.kind = "read_bits"
                 => U32Result(task.acc) = HalvesOf(b, task.got)
            /\ ops[1].st = "done"
                 => /\ ops[1].res = HalvesOf(b, n)
                    /\ IF n <= 16
                       THEN ops[1].res[1] = 0 /\ ops[1].res[2] < 2 ^ n
                       ELSE ops[1].res[1] < 2 ^ (n - 16)

\* 32 bits, the first one set and the last one set among them, were read
\* without loss: 10100110 four times gave 0xA6A6A6A6.
C14_Witness ==
    /\ Len(ops) = 1 /\ ops[1].st = "done" /\ ops[1].op.kind = "read_bits"
    /\ ops[1].op.args = <<32>>
    /\ SubSeq(ops[1].op.reply, 1, 8) = <<1, 0, 1, 0, 0, 1, 1, 0>>
    /\ ops[1].res = <<42662, 42662>>

\* The framed bytes the calls from the i-th on put on the bus when the DCX
\* line is at `level` before them, from the callers' arguments alone.
RECURSIVE BusOf(_, _, _)
BusOf(log, i, level) ==
    IF i > Len(log) THEN <<>>
    ELSE IF log[i].op.kind = "set_dcx"
         THEN BusOf(log, i + 1, log[i].op.name)
         ELSE [j \in 1..Len(log[i].op.args) |->
                  [dcx |-> level, byte |-> log[i].op.args[j]]]
              \o BusOf(log, i + 1, level)

\* The argument of every write call, in order.
RECURSIVE WriteArgs(_, _)
WriteArgs(log, i) ==
    IF i > Len(log) THEN <<>>
    ELSE (IF log[i].op.kind = "set_dcx" THEN <<>> ELSE <<log[i].op.args>>)
         \o WriteArgs(log, i + 1)

\* C15: after any sequence of single-byte writes, batch writes and DCX
\* switches run to completion, the framed bytes on the bus are the same
\* function of the calls and of the initial DCX level on an AdapterU8 and on
\* an AdapterU8s; and on an AdapterU8s every write, a single-byte write of b
\* as [b], was exactly one call of the underlying batch write.
C15_AdaptersAgree ==
    (user \in {"adapter", "adapter_u8s"} /\ run = "idle") =>
        /\ Frames(wire) = BusOf(ops, 1, spi.pin0)
        /\ user = "adapter_u8s" => spi.calls = WriteArgs(ops, 1)

\* On an AdapterU8s: write_u8(0x37), switch DCX, write_u8s([0x34, 0x56]).
C15_Witness ==
    /\ user = "adapter_u8s" /\ run = "idle" /\ Len(ops) = 3
    /\ ops[1].op.name = "write_u8" /\ ops[1].op.args = <<55>>
    /\ ops[2].op.kind = "set_dcx" /\ ops[2].op.name # spi.pin0
    /\ ops[3].op.name = "write_u8s" /\ ops[3].op.args = <<52, 86>>
    /\ spi.calls = << <<55>>, <<52, 86>> >>
    /\ Len(wire) = 3

\* The i-th operation is a batch write of an empty sequence.
EmptyBatch(i) ==
    /\ ops[i].op.kind \in {"a_write_u8s", "rw_write_u8_iter",
                           "rw_write_u16_iter", "a_write_u16_iter"}
    /\ ops[i].op.args = <<>>

\* C16: a batch write of an empty sequence hands no byte to the SPI, is done
\* when its first poll returns, and leaves the DCX line at the level it had
\* when the write was issued.
C16_EmptyBatch ==
    \A i \in 1..Len(ops) :
        EmptyBatch(i) =>
            /\ (IF i < Len(ops) THEN ops[i + 1].base ELSE spi.nSent)
                 = ops[i].base
            /\ (IF i < Len(ops) THEN ops[i + 1].dcx0 ELSE spi.dcx)
                 = ops[i].dcx0
            /\ i = Len(ops)
                 => /\ task.polls # "many"
                    /\ ops[i].st = "done" => task.polls = "one"
                    /\ (ops[i].st = "run" /\ task.polls = "one")
                         => run = "polling"

\* In a ramwr session an empty write_u16_iter was done on its first poll:
\* only the opcode is on the wire and the line is still in data mode.
C16_Witness ==
    /\ Len(ops) = 2 /\ run = "idle"
    /\ ops[1].op.kind = "ramwr"
    /\ ops[2].op.kind = "rw_write_u16_iter" /\ ops[2].op.args = <<>>
    /\ ops[2].st = "done" /\ task.polls = "one"
    /\ Len(wire) = 1 /\ spi.dcx = "data"

\* The operations that go through a RamWriter, and its drop.
SessionKinds == {"rw_write_u8", "rw_write_u8_iter", "rw_write_u16_iter", "drop"}

\* The i-th operation opened a RamWriter session that no later operation up
\* to the j-th has released.
OpenSince(i, j) ==
    /\ ops[i].op.kind \in {"ramwr", "rgbset"} /\ ops[i].st = "done"
    /\ \A k \in (i + 1)..j : ops[k].op.kind # "drop"

\* While a RamWriter is live no command is issued through the Commands
\* object it borrows: every operation between a session's opening and its
\* release is a write through the RamWriter, no opcode is handed to the SPI,
\* and at most one operation is outstanding at any time.
WriterExclusive ==
    /\ \A i \in 1..Len(ops) : \A j \in (i + 1)..Len(ops) :
         OpenSince(i, j - 1) => ops[j].op.kind \in SessionKinds
    /\ writer # "none"
         => /\ task.kind \in SessionKinds \cup {"none"}
            /\ spi.bsy => spi.dr.role # "opcode"
    /\ \A i \in 1..Len(ops) : ops[i].st = "run" => i = Len(ops)

\* C17: at most one session is active on the transport at any time, a
\* RamWriter session (from ramwr/rgbset to the writer's drop) or a read
\* session (from start_reading to finish_reading), and while one is active no
\* command is issued: no RamWriter session is open while the bus is in read
\* mode, and no opcode is handed to the SPI during either kind of session.
C17_OneSession ==
    /\ WriterExclusive
    /\ ~(writer # "none" /\ spi.reading)
    /\ (spi.bsy /\ spi.dr.role = "opcode") => ~spi.reading

\* C18 as stated: after every poll that returns Pending block_on polls the
\* operation again, whether or not the operation invoked the waker: whenever
\* block_on is between two polls, its test of the flag passes.
C18_AlwaysRepolls == run = "suspended" => ENABLED BlockOnTest

\* C18 as the code has it: block_on sets the flag once, before its loop, and
\* after a poll that returned Pending it polls again exactly when that poll
\* invoked the waker, which ByteWriting's poll always does.
C18_RepollsWhenWaked ==
    run = "suspended"
      => (ENABLED BlockOnTest
            <=> \/ task.polls = "none"
                \/ task.kind # "future"
                \/ task.bytes[task.cur] = 1)

C18_Witness ==
    /\ run = "polling" /\ task.polls = "many"
    /\ \/ task.kind = "future" /\ task.cur = 2
       \/ task.kind = "command" /\ bw.pended

\* C19: every issued operation eventually completes.  With the busy
\* indicator clearing after each started byte, an operation handed to
\* block_on does not stay outstanding for ever, and the drop of an abandoned
\* ByteWriting returns.
C19_Terminates ==
    /\ (run \in {"suspended", "polling"}) ~> (run \in {"idle", "dropping"})
    /\ (run = "dropping") ~> (run = "idle")

C19_Witness ==
    /\ run = "idle" /\ Len(ops) = 2
    /\ ops[1].st = "abandoned" /\ ops[1].inflight
    /\ ops[2].st = "done" /\ task.polls = "many"
    /\ ops[2].op.kind \in {"command_with_u16_pair", "a_write_u8s"}

\* C20: Colmod encodes as R4G4B4 = 0b011, R5G6B5 = 0b101, R6G6B6 = 0b110,
\* Unknown = 0b111; a byte decodes as 3 -> R4G4B4, 5 -> R5G6B5, 6 -> R6G6B6,
\* 7 and every other byte -> Unknown; decoding the encoding of c gives c.
C20_ColmodRoundTrip ==
    \A i \in 1..Len(ops) :
      /\ ops[i].op.name = "u8_from_colmod"
           => /\ ops[i].res =
                   <<CASE ops[i].op.sym = "R4G4B4" -> 3
                       [] ops[i].op.sym = "R5G6B5" -> 5
                       [] ops[i].op.sym = "R6G6B6" -> 6
                       [] ops[i].op.sym = "Unknown" -> 7>>
              /\ (i < Len(ops) /\ ops[i + 1].op.args = ops[i].res)
                   => ops[i + 1].op.sym = ops[i].op.sym
      /\ ops[i].op.name = "colmod_from_u8"
           => ops[i].op.sym =
                 CASE ops[i].op.args = <<3>> -> "R4G4B4"
                   [] ops[i].op.args = <<5>> -> "R5G6B5"
                   [] ops[i].op.args = <<6>> -> "R6G6B6"
                   [] OTHER -> "Unknown"

C20_Witness ==
    /\ Len(ops) = 2
    /\ ops[1].op.name = "u8_from_colmod" /\ ops[1].op.sym = "R6G6B6"
    /\ ops[2].op.name = "colmod_from_u8" /\ ops[2].op.args = ops[1].res
    /\ ops[2].op.sym = "R6G6B6"

\* The value the k-th field was last set to, in a log of setter calls.
LastSet(k) ==
    LET I == {i \in 1..Len(ops) : /\ ops[i].op.kind = "set"
                                  /\ ops[i].op.name = MadctlFields[k].name}
    IN  ops[CHOOSE i \in I : \A j \in I : j <= i].op.sym

\* The index of the field a setter call of the log is about.
FieldOf(i) ==
    CHOOSE k \in 1..Len(MadctlFields) : MadctlFields[k].name = ops[i].op.name

\* C21: with all six fields set on a default Madctl, the byte madctl sends
\* has bit 7 (row address order), bit 6 (column address order), bit 5
\* (row/column swap), bit 4 (vertical refresh order), bit 3 (RGB order) and
\* bit 2 (horizontal refresh order) equal to 1 exactly when the field holds
\* TopToBottom, LeftToRight, Unswapped, TopToBottom, RedGreenBlue and
\* LeftToRight, and bits 1 and 0 equal to 0.
C21_MadctlByte ==
    (Len(ops) > 0 /\ ops[Len(ops)].op.name = "madctl"
                  /\ ops[Len(ops)].st = "done")
      => /\ Len(wire) = 2
         /\ wire[1].byte = 54
         /\ wire[2].byte =
                128 * (IF LastSet(1) = "TopToBottom" THEN 1 ELSE 0)
              + 64 * (IF LastSet(2) = "LeftToRight" THEN 1 ELSE 0)
              + 32 * (IF LastSet(3) = "Unswapped" THEN 1 ELSE 0)
              + 16 * (IF LastSet(4) = "TopToBottom" THEN 1 ELSE 0)
              + 8 * (IF LastSet(6) = "RedGreenBlue" THEN 1 ELSE 0)
              + 4 * (IF LastSet(5) = "LeftToRight" THEN 1 ELSE 0)

\* madctl_test1: the six setters, then madctl, sent 0x36 and 0x3C.
C21_Witness ==
    /\ Len(ops) = 7 /\ ops[7].op.name = "madctl" /\ ops[7].st = "done"
    /\ [k \in 1..6 |-> ops[k].op.sym]
         = <<"BottomToTop", "RightToLeft", "Unswapped", "TopToBottom",
             "LeftToRight", "RedGreenBlue">>
    /\ wire[2].byte = 60

\* C22: after a setter was called with v its getter returns v, the other
\* five getters return what they returned before the call, and a second call
\* of the same setter with v leaves the Madctl as the first call left it.
C22_SetterFrame ==
    \A i \in 1..Len(ops) :
      ops[i].op.kind = "set" =>
        LET before == [data |-> ops[i].op.args[1]]
            after  == [data |-> ops[i].res[1]]
        IN  /\ bit_field_get(after, FieldOf(i)) = ops[i].op.sym
            /\ \A k \in 1..Len(MadctlFields) \ {FieldOf(i)} :
                 bit_field_get(after, k) = bit_field_get(before, k)
            /\ (/\ i > 1
                /\ ops[i - 1].op.name = ops[i].op.name
                /\ ops[i - 1].op.sym = ops[i].op.sym)
                 => ops[i].res = ops[i - 1].res

\* On a Madctl with all six bits set, set_rgb_order(BlueGreenRed) was called
\* twice: rgb_order() is BlueGreenRed and the other bits are still set.
C22_Witness ==
    /\ Len(ops) = 8
    /\ ops[7].op.args = <<252>>
    /\ ops[7].op.name = "rgb_order" /\ ops[7].op.sym = "BlueGreenRed"
    /\ ops[8].op.name = "rgb_order" /\ ops[8].op.sym = "BlueGreenRed"
    /\ ops[8].res = <<244>>

\* C23: a single-byte write hands its byte to the hardware when write_u8 is
\* invoked, before the handle is first polled, and exactly one byte per
\* invocation, whether the handle is then polled to completion, abandoned
\* after a poll, or dropped without ever being polled.
C23_StartsOnInvocation ==
    \A i \in 1..Len(ops) :
        ops[i].op.kind \in {"rw_write_u8", "a_write_u8"}
          => /\ (IF i < Len(ops) THEN ops[i + 1].base ELSE spi.nSent)
                  = ops[i].base + 1
             /\ StartedByte(ops[i].base + 1) = ops[i].op.args[1]

\* The handle of a write_u8 on the bare adapter was dropped without a poll:
\* its byte is on the wire.
C23_Witness ==
    /\ Len(ops) = 1 /\ run = "idle"
    /\ ops[1].op.kind = "a_write_u8" /\ ops[1].st = "abandoned"
    /\ task.polls = "none"
    /\ Len(wire) = 1 /\ wire[1].byte = ops[1].op.args[1]

\* The values of the first k reads: read j has the bits of the line after
\* those of the reads before it.
RECURSIVE ReadValues(_, _, _)
ReadValues(lens, b, k) ==
    IF k = 0 THEN <<>>
    ELSE ReadValues(lens, b, k - 1)
         \o HalvesOf(SubSeq(b, SumTo(lens, k - 1) + 1, SumTo(lens, k)),
                     lens[k])

\* C24: in a read session with several read_bits calls the switch to read
\* mode is made once, at start_reading; read k consumes the next n_k bits of
\* the line and returns the value of those bits only; the switch back to
\* write mode is made once, after the last read.
C24_ReadSession ==
    (Len(ops) = 1 /\ ops[1].op.kind = "read_session") =>
        LET lens == ops[1].op.args
            b    == ops[1].op.reply
        IN  /\ spi.nStart <= 1 /\ spi.nFinish <= spi.nStart
            /\ spi.reading <=> (spi.nStart = 1 /\ spi.nFinish = 0)
            /\ task.pc = "read"
                 => LET off == SumTo(lens, task.cur - 1)
                    IN  /\ spi.reading
                        /\ spi.nRead = off + task.got
                        /\ task.words = ReadValues(lens, b, task.cur - 1)
                        /\ U32Result(task.acc)
                             = HalvesOf(SubSeq(b, off + 1, off + task.got),
                                        task.got)
            /\ ops[1].st = "done"
                 => /\ spi.nStart = 1 /\ spi.nFinish = 1
                    /\ spi.nRead = SumTo(lens, Len(lens))
                    /\ ops[1].res = ReadValues(lens, b, Len(lens))

\* read_data: read_bits(11) and read_bits(9) on one reader returned
\* 0b10010101101 and 0b010101111.
C24_Witness ==
    /\ Len(ops) = 1 /\ ops[1].op.args = <<11, 9>> /\ ops[1].st = "done"
    /\ ops[1].res = <<0, 1197, 0, 175>>
    /\ spi.nStart = 1 /\ spi.nFinish = 1 /\ spi.nRead = 20

\* The DCX level the caller has last chosen before the i-th call: that of
\* the last switch before it, or the level the pin had from the start.
LevelBefore(i) ==
    LET J == {j \in 1..(i - 1) : ops[j].op.kind = "set_dcx"}
    IN  IF J = {} THEN spi.pin0
        ELSE ops[CHOOSE j \in J : \A h \in J : h <= j].op.name

\* The write call that handed the k-th byte to the transport.
WriterOf(k) ==
    CHOOSE i \in 1..Len(ops) :
        /\ ops[i].op.kind # "set_dcx"
        /\ ops[i].base < k /\ k <= ops[i].base + Len(ops[i].op.args)

\* C25: through an adapter the DCX line is always at the level of the
\* caller's most recent switch, and every byte on the bus is the byte of the
\* write call that issued it, in issue order, framed (when written and when
\* latched) with the level of the most recent switch before that call.
C25_AdapterForwards ==
    user \in {"adapter", "adapter_u8s"} =>
        /\ spi.dcx = LevelBefore(Len(ops) + 1)
        /\ \A k \in 1..Len(wire) :
             LET i == WriterOf(k)
             IN  /\ wire[k].byte = ops[i].op.args[k - ops[i].base]
                 /\ FramedAs(wire[k], LevelBefore(i))

\* On an AdapterU8 whose pin started in data mode: write_u8(0x37), switch to
\* command mode, write_u8(0x37) put D(0x37), C(0x37) on the bus.
C25_Witness ==
    /\ user = "adapter" /\ run = "idle" /\ Len(ops) = 3
    /\ spi.pin0 = "data"
    /\ ops[1].op.kind = "a_write_u8"
    /\ ops[2].op.kind = "set_dcx" /\ ops[2].op.name = "command"
    /\ ops[3].op.kind = "a_write_u8"
    /\ Frames(wire) = <<DataFrame(55), CmdFrame(55)>>

\* C26: block_on starts a poll only in a step that finds the flag set and
\* clears it; the operation runs only inside a poll; the poll that yields
\* Ready ends block_on with the operation's result, and an operation that
\* has returned Ready is not polled again.
C26_PollsAfterTest ==
    [][/\ (run # "polling" /\ run' = "polling")
            => (run = "suspended" /\ waked /\ ~waked')
       /\ (task'.pc # task.pc \/ task'.cur # task.cur)
            => (run = "polling" \/ run = "idle")
       /\ (Len(ops) > 0 /\ Len(ops') = Len(ops))
            => /\ (ops[Len(ops)].st # "done" /\ ops'[Len(ops)].st = "done")
                    => (run = "polling" /\ run' = "idle")
               /\ ops[Len(ops)].st = "done"
                    => (run' = "idle" /\ task' = task /\ ops' = ops)
      ]_vars

\* A future that returned Pending twice, waking each time, was polled three
\* times and block_on has returned.
C26_Witness ==
    /\ Len(ops) = 1 /\ run = "idle"
    /\ ops[1].op.kind = "future" /\ ops[1].op.args = <<1, 1>>
    /\ ops[1].st = "done" /\ task.polls = "many"

\* The number of bytes the i-th operation has handed to the SPI, and the DCX
\* level it left behind (the level when the next operation was issued).
SentBy(i) == (IF i < Len(ops) THEN ops[i + 1].base ELSE spi.nSent) - ops[i].base

LevelAfter(i) == IF i < Len(ops) THEN ops[i + 1].dcx0 ELSE spi.dcx

\* C27: when a command with parameters is abandoned after it switched to
\* data mode (its first parameter byte was started) and before it completed,
\* the line stays in data mode, and the opcode of the next command issued on
\* the same Commands object (once that command has been polled and its
\* opcode shifted out) goes out data-framed; the drop of a RamWriter
\* does leave the line in command mode.
C27_AbandonLeavesDataMode ==
    \A i \in 1..Len(ops) :
      /\ (/\ ops[i].op.kind \in {"command_with_u8", "command_with_u16_pair",
                                  "command_with_u16_slice"}
          /\ ops[i].st = "abandoned" /\ SentBy(i) >= 2)
           => /\ LevelAfter(i) = "data"
              /\ (i < Len(ops) /\ ops[i + 1].op.kind # "drop"
                              /\ SentBy(i + 1) >= 1
                              /\ ops[i + 1].base < Len(wire))
                   => LET e == wire[ops[i + 1].base + 1]
                      IN  /\ e.role = "opcode" /\ e.byte = ops[i + 1].op.cmd
                          /\ FramedAs(e, "data")
      /\ ops[i].op.kind = "drop" => LevelAfter(i) = "command"

\* teon(true) was abandoned while its parameter was being sent; the nop
\* issued next put its opcode on the bus data-framed.
C27_Witness ==
    /\ Len(ops) = 2 /\ run = "idle"
    /\ ops[1].op.name = "teon" /\ ops[1].st = "abandoned"
    /\ ops[2].op.name = "nop" /\ ops[2].st = "done"
    /\ Frames(wire) = <<CmdFrame(53), DataFrame(1), DataFrame(0)>>

\* C28: while a RepeatU8 is outstanding, the bytes it has handed to the
\* single-byte write and the bytes it still holds make up its sequence, each
\* once; a poll that returns Pending keeps the current write and starts
\* nothing, and no byte is started while a current write is live; the poll
\* that returns Ready writes nothing, and a further poll of the RepeatU8 as
\* that poll left it (no data, no current write) is Ready and writes nothing.
C28_EachByteOnce ==
    [][(Len(ops) > 0 /\ task.kind = "a_write_u8s") =>
         /\ Len(task.bytes) + (spi.nSent - ops[Len(ops)].base)
              = Len(ops[Len(ops)].op.args)
         /\ (run = "polling" /\ run' = "suspended")
              => /\ bw.status = "Started" /\ bw'.status = "Started"
                 /\ bw'.id = bw.id
                 /\ spi' = spi /\ task'.bytes = task.bytes
         /\ bw.status = "Started" => spi'.nSent = spi.nSent
         /\ ops'[Len(ops)].st = "done"
              => /\ task.bytes = <<>> /\ spi' = spi
                 /\ LET r == RepeatU8_poll(task, spi', NoHandle)
                    IN  r.fin /\ ~r.pending /\ r.spi = spi'
      ]_vars

\* A RepeatU8 of two bytes was polled more than once, returned Ready, and
\* its two bytes are on the wire.
C28_Witness ==
    /\ Len(ops) = 1 /\ run = "idle"
    /\ ops[1].op.kind = "a_write_u8s" /\ ops[1].op.args = <<52, 86>>
    /\ ops[1].st = "done" /\ task.polls = "many"
    /\ Len(wire) = 2 /\ spi.nSent = 2

\* C29: once the abandonment of a RepeatU8 has returned, the bytes it put
\* on the bus are a prefix of its sequence, all of them transmitted
\* completely (the one in flight at the abandonment included); and as long
\* as nothing else is issued the future is gone, no further byte has been
\* started and the SPI is not busy.
C29_AbandonedBatchPrefix ==
    \A i \in 1..Len(ops) :
      (/\ ops[i].op.kind = "a_write_u8s" /\ ops[i].st = "abandoned"
       /\ (i = Len(ops) => run = "idle"))
        => /\ SentBy(i) <= Len(ops[i].op.args)
           /\ ops[i].inflight => SentBy(i) >= 1
           /\ Len(wire) >= ops[i].base + SentBy(i)
           /\ \A k \in 1..SentBy(i) :
                wire[ops[i].base + k].byte = ops[i].op.args[k]
           /\ i = Len(ops)
                => /\ ~spi.bsy /\ Len(wire) = spi.nSent
                   /\ task.kind = "none" /\ bw.status = "None"

\* write_u8s([0x34, 0x56]) was abandoned while 0x34 was being shifted out:
\* 0x34 alone is on the wire and the SPI is idle.
C29_Witness ==
    /\ Len(ops) = 1 /\ run = "idle"
    /\ ops[1].op.kind = "a_write_u8s" /\ ops[1].op.args = <<52, 86>>
    /\ ops[1].st = "abandoned" /\ ops[1].inflight
    /\ Len(wire) = 1 /\ wire[1].byte = 52 /\ ~spi.bsy

\* ------------------------------------------------------------------ C30
\* The state of the SPE bit and of the clock/data pins after the first n
\* register writes; initialize_spi1 leaves the pins on SPI1 and SPE enabled.
LastOf(n, fs) ==
    LET S == {k \in 1..n : spi.regs[k].f \in fs}
    IN  IF S = {} THEN 0 ELSE CHOOSE k \in S : \A j \in S : j <= k

SpeAfter(n) ==
    LET k == LastOf(n, {"enable_spi1", "disable_spi1"})
    IN  k = 0 \/ spi.regs[k].f = "enable_spi1"

PinsAfter(n) ==
    LET k == LastOf(n, {"set_pins_spi1", "set_pins_bitbang"})
    IN  IF k = 0 \/ spi.regs[k].f = "set_pins_spi1" THEN "spi1" ELSE "bitbang"

\* C30: the transmitter is never reconfigured under a running transfer:
\* every write of SPE or of the pin modes (start_reading's disable_spi1
\* first of all) happens while the SPI is not busy, and after every single
\* register write, those in the middle of start_reading and of the reader's
\* release included, the pins are in bit-bang mode only while SPE is
\* disabled.
C30_NoReconfigUnderTransfer ==
    /\ \A k \in 1..Len(spi.regs) : ~spi.regs[k].bsy
    /\ \A n \in 0..Len(spi.regs) : PinsAfter(n) = "bitbang" => ~SpeAfter(n)
    /\ spi.reading => PinsAfter(Len(spi.regs)) = "bitbang"

\* caset (0x2A and its four parameter bytes on the wire) was followed by a
\* completed rdid1: SPI disabled, pins to bit-bang, pins back, SPI enabled.
C30_Witness ==
    /\ Len(ops) = 2 /\ ops[1].op.cmd = CASET /\ ops[1].st = "done"
    /\ ops[2].op.kind = "rdid" /\ ops[2].st = "done"
    /\ Len(wire) = 6 /\ Len(spi.regs) = 4
    /\ spi.regs[1].f = "disable_spi1" /\ spi.regs[2].f = "set_pins_bitbang"
    /\ spi.regs[3].f = "set_pins_spi1" /\ spi.regs[4].f = "enable_spi1"
    /\ PinsAfter(2) = "bitbang" /\ ~SpeAfter(2) /\ SpeAfter(4)

\* ------------------------------------------------------------------ C31
\* C31: the triple rddid returns does not depend on the first of the 25
\* bits it read: two completed rddid whose answers agree in the 24 bits
\* after the first return the same triple, whatever their first bits, and
\* that triple is the bytes of the bits 2-9, 10-17 and 18-25 in reading
\* order.
C31_DummyBitIgnored ==
    \A i, j \in 1..Len(ops) :
      (/\ ops[i].op.name = "rddid" /\ ops[i].st = "done"
       /\ ops[j].op.name = "rddid" /\ ops[j].st = "done"
       /\ Tail(ops[i].op.reply) = Tail(ops[j].op.reply))
        => /\ ops[i].res = ops[j].res
           /\ ops[i].res = <<BitsValue(SubSeq(ops[j].op.reply, 2, 9)),
                             BitsValue(SubSeq(ops[j].op.reply, 10, 17)),
                             BitsValue(SubSeq(ops[j].op.reply, 18, 25))>>

\* rddid read 0b0_11110000_11010010_01100001, then the same 24 bits after a
\* first bit of 1: both returned [0xF0, 0xD2, 0x61].
C31_Witness ==
    /\ Len(ops) = 2 /\ ops[1].st = "done" /\ ops[2].st = "done"
    /\ ops[1].op.reply[1] = 0 /\ ops[2].op.reply[1] = 1
    /\ Tail(ops[1].op.reply) = Bits(15782497, 24)
    /\ Tail(ops[2].op.reply) = Bits(15782497, 24)
    /\ ops[1].res = <<240, 210, 97>> /\ ops[2].res = <<240, 210, 97>>

\* ------------------------------------------------------------------ C32
\* C32: no wake-up is lost and wake-ups coalesce.  While block_on runs, a
\* wake that came from outside the poll after the flag was last cleared
\* (during the poll or after it returned Pending) leaves the flag set until
\* block_on tests it, and so does the wake of a future's own poll; the flag
\* is cleared only by the test that starts the next poll; that test clears
\* it whole, however many wakes came, so that a poll that returns Pending
\* without a wake is not followed by another poll until a new wake comes;
\* and a wake is followed by a further poll of the operation unless the
\* poll it came in completed the operation.
C32_NoLostWake ==
    /\ [](run \in {"suspended", "polling"} /\ task.wakes > 0 => waked)
    /\ []((run = "suspended" /\ task.kind = "future" /\ task.cur > 0)
            => (waked <=> (task.wakes > 0 \/ task.bytes[task.cur] = 1)))
    /\ [][/\ (waked /\ ~waked')
              => (run = "suspended" /\ run' = "polling")
          /\ (run = "suspended" /\ run' = "polling")
              => (~waked' /\ task'.wakes = 0)]_vars
    /\ (run \in {"suspended", "polling"} /\ task.wakes > 0)
         ~> ((run = "polling" /\ task.wakes = 0) \/ run = "idle")

\* A future whose first poll returned Pending without a wake was woken
\* twice from outside before block_on tested the flag, and is polled again.
C32_Witness ==
    /\ run = "polling" /\ task.kind = "future" /\ task.cur = 1
    /\ task.bytes[1] = 0 /\ task.polls = "many"
    /\ task.wakes = 0 /\ ~waked

\* The two wakes before that test.
C32_TwoWakes ==
    /\ run = "suspended" /\ task.kind = "future" /\ task.cur = 1
    /\ task.bytes[1] = 0 /\ task.wakes = 2 /\ waked

\* ------------------------------------------------------------------ C33
\* The handle's status after the i-th call: what the next call found, or
\* what the handle has now.
StatusAfter(i) == IF i < Len(ops) THEN ops[i + 1].op.sym ELSE bw.status

\* C33: a ByteWriting only moves from Started to Done.  is_done and poll on
\* a Started handle return true / Ready exactly when the SPI is not busy and
\* then leave the handle Done; on a Done handle they return true / Ready
\* whatever SR.BSY says, also while a later byte is being shifted out, and
\* the handle stays Done; the drop of a Done handle returns at once, busy
\* hardware or not, and the drop of a Started one only once the SPI is not
\* busy.
C33_StartedToDone ==
    /\ \A i \in 1..Len(ops) :
         LET o == ops[i].op
         IN  /\ (o.kind = "handle" /\ o.name \in {"is_done", "poll"})
                  => /\ o.sym = "Done" => ops[i].res = <<1>>
                     /\ o.sym = "Started"
                          => ops[i].res = <<IF o.flag THEN 0 ELSE 1>>
                     /\ StatusAfter(i)
                          = IF ops[i].res = <<1>> THEN "Done" ELSE "Started"
             /\ (o.kind = "handle" /\ o.name = "drop" /\ o.flag)
                  => o.sym = "Done"
    /\ (bw.status = "Done" /\ Len(ops) < MaxCalls /\ user = "adapter")
         => ENABLED HandleDrop

\* A handle found Done by is_done was polled and dropped while a later byte
\* was being shifted out: Ready, and the drop did not wait.
C33_Witness ==
    /\ Len(ops) = 4 /\ spi.bsy /\ spi.nSent = 2
    /\ ops[2].op.name = "is_done" /\ ops[2].res = <<1>>
    /\ ops[3].op.name = "poll" /\ ops[3].op.sym = "Done" /\ ops[3].op.flag
    /\ ops[3].res = <<1>>
    /\ ops[4].op.name = "drop" /\ ops[4].op.sym = "Done" /\ ops[4].op.flag

\* ------------------------------------------------------------------ C34
\* C34: before any setter has been called, the Madctl the caller holds is
\* Madctl::default(), and each of its six getters returns the default
\* variant of the field's type (TopToBottom, LeftToRight, Unswapped,
\* TopToBottom, LeftToRight, RedGreenBlue).
C34_DefaultFields ==
    ops = <<>>
      => \A k \in 1..Len(MadctlFields) :
           bit_field_get(CurMadctl, k) = BitTypeDefault(MadctlFields[k].type)

\* What the getters of Madctl::default() return: the one variant of every
\* field, and the setters called with the default variants give 0xFC.
C34_DefaultIsOneVariants ==
    /\ ops = <<>>
          => \A k \in 1..Len(MadctlFields) :
               bit_field_get(CurMadctl, k) = BitTypes[MadctlFields[k].type][2]
    /\ (/\ Len(ops) = Len(MadctlFields)
        /\ \A k \in 1..Len(ops) :
             /\ ops[k].op.kind = "set"
             /\ ops[k].op.sym = BitTypeDefault(MadctlFields[k].type))
         => CurMadctl.data = 252

\* ------------------------------------------------------------------ C35
\* The level the read left the clock pin PA5 at: its last write, if any.
ClockWrites == SelectSeq(spi.gpio, LAMBDA e : e.pin = "PA5")

\* C35: on both transports read_bits(0) returns 0 and neither drives the
\* clock nor samples the line; read_bits(n) with n > 32 completes and
\* returns the number whose 32 binary digits are the last 32 bits sampled;
\* and a bit-banged read of n >= 1 bits ends with the clock high.
C35_ReadBitsBoundaries ==
    (Len(ops) = 1 /\ ops[1].st = "done") =>
        LET n == ops[1].op.args[1]
            b == ops[1].op.reply
        IN  /\ n = 0 => /\ ops[1].res = <<0, 0>>
                        /\ spi.gpio = <<>> /\ spi.nRead = 0
            /\ n > 32 => /\ ops[1].res = HalvesOf(SubSeq(b, n - 31, n), 32)
                         /\ spi.nRead = n
            /\ (n >= 1 /\ ops[1].op.kind = "bitbang")
                 => /\ ClockWrites # <<>>
                    /\ ClockWrites[Len(ClockWrites)] = ClockHigh

\* 33 bits, only the first of them set, were read bit by bit on the
\* example's pins: the set bit fell off the 32 and the value is 0.
C35_Witness ==
    /\ Len(ops) = 1 /\ ops[1].st = "done" /\ ops[1].op.kind = "bitbang"
    /\ ops[1].op.args = <<33>> /\ ops[1].op.reply[1] = 1
    /\ \A i \in 2..33 : ops[1].op.reply[i] = 0
    /\ ops[1].res = <<0, 0>> /\ Len(spi.gpio) = 165

\* The same on the mock device, and a read of no bits.
C35_WitnessMock ==
    /\ Len(ops) = 1 /\ ops[1].st = "done" /\ ops[1].op.kind = "read_bits"
    /\ ops[1].op.args = <<33>> /\ ops[1].op.reply[1] = 1
    /\ \A i \in 2..33 : ops[1].op.reply[i] = 0
    /\ ops[1].res = <<0, 0>>

====
